---- MODULE Spec2Model ----
(***************************************************************************)
(* Opportunity lifecycle and orchestration engine of the AI agents:        *)
(*   - the decision store API of simple_ai_api.py (record, listing of      *)
(*     unprocessed opportunities, marking an opportunity processed);       *)
(*   - the execution gate of simple_ai_agent.py and gemini_agent.py;       *)
(*   - the cycle schedulers of simple_ai_agent.py (sequential) and         *)
(*     crew_orchestrator.py (batched), and its continuous mode;            *)
(*   - analyze_product: the analysis context and the parse of the reply.   *)
(* Python strings that the code formats, splits or compares are sequences  *)
(* of one-character strings, so that an identifier is built and parsed     *)
(* the way the code builds and parses it.                                  *)
(***************************************************************************)
EXTENDS Integers, Sequences, FiniteSets, TLC

VARIABLES
    agent_decisions,   \* arbitrage_db.agent_decisions, in insertion order
    clock,             \* datetime.now(), advanced by every insert
    response,          \* the last response of the API
    marks,             \* number of process_opportunity calls made so far
    marked,            \* history: listed identifiers whose marking succeeded
    requests,          \* the process_opportunity calls received, in order
    recent_decision,   \* the key-value cache: product id -> mirrored decision
    network_decisions, \* arbitrage_network.agent_decisions (orchestrator path)
    bids,              \* the bids POSTed to the trading backend, in order
    deployment,        \* which API serves: "simple" (AgentRunner) or "crew"
    runner,            \* AgentRunner.run_agents_for_all_products in progress
    orch,              \* AIAgentOrchestrator and its manage_all_products
    gate,              \* the last execute_opportunity call and what it returned
    analysis,          \* the last analyze_product call and what it returned
    loop               \* agent_loop of run_continuous_agents

store_vars == <<agent_decisions, clock, response, marks, marked, requests,
                recent_decision>>

cycle_vars == <<network_decisions, bids, deployment, runner, orch, gate,
               analysis, loop>>

vars == <<agent_decisions, clock, response, marks, marked, requests,
          recent_decision, network_decisions, bids, deployment, runner, orch,
          gate, analysis, loop>>

----------------------------------------------------------------------------
(* Bounds of the model *)

MaxDecisions == 3      \* Decisions inserted in one behaviour
MaxMarks == 2          \* process_opportunity calls in one behaviour
MaxLimit == 2          \* largest limit passed to GET /opportunities
MaxProducts == 3       \* active products of the catalogue
MaxCatalogue == 11     \* products of the longest catalogue
MaxCycles == 2         \* cycles run in one behaviour
MaxCalls == 3          \* requests to analyse one product in one behaviour
MaxEvaluations == 2    \* execute_opportunity calls in one behaviour
MaxStores == 7         \* inventory documents of one product

----------------------------------------------------------------------------
(* Python values *)

PyNone == [t |-> "none", s |-> <<>>]
Missing == [t |-> "missing", s |-> <<>>]          \* key absent from a dict
PyStr(s) == [t |-> "str", s |-> s]

\* dict.get(key, default)
Get(v, default) == IF v.t = "missing" THEN default ELSE v

\* truthiness of an Optional[str]
Truthy(v) == v.t = "str" /\ v.s # <<>>

\* str(v), and the rendering of v in an f-string
Str(v) == IF v.t = "none" THEN <<"N", "o", "n", "e">> ELSE v.s

Digits == <<"0", "1", "2", "3", "4", "5", "6", "7", "8", "9">>

\* str(i) for a non-negative int
RECURSIVE Decimal(_)
Decimal(i) ==
    IF i < 10 THEN <<Digits[i + 1]>>
    ELSE Decimal(i \div 10) \o <<Digits[(i % 10) + 1]>>

\* c in s
Contains(s, c) == \E k \in 1..Len(s) : s[k] = c

\* s.split(c)[0]
SplitFirst(s, c) ==
    IF Contains(s, c)
    THEN LET k == CHOOSE k \in 1..Len(s) :
                      s[k] = c /\ \A j \in 1..(k - 1) : s[j] # c
         IN SubSeq(s, 1, k - 1)
    ELSE s

HexChars == {"0", "1", "2", "3", "4", "5", "6", "7", "8", "9",
             "a", "b", "c", "d", "e", "f", "A", "B", "C", "D", "E", "F"}

LowerChar(c) ==
    CASE c = "A" -> "a" [] c = "B" -> "b" [] c = "C" -> "c"
      [] c = "D" -> "d" [] c = "E" -> "e" [] c = "F" -> "f"
      [] OTHER -> c

Lower(s) == [k \in 1..Len(s) |-> LowerChar(s[k])]

\* length of the hexadecimal form of a bson ObjectId
ObjectIdLen == 24

\* ObjectId(s) does not raise InvalidId
IsObjectId(s) == Len(s) = ObjectIdLen /\ \A k \in 1..Len(s) : s[k] \in HexChars

\* str(ObjectId) of the n-th inserted document: ids are unique and lower-case
NewObjectId(n) ==
    LET d == Decimal(n)
        pad == ObjectIdLen - Len(d)
    IN [k \in 1..ObjectIdLen |-> IF k <= pad THEN "0" ELSE d[k - pad]]

----------------------------------------------------------------------------
(* Data of the decision store *)

StoreA == <<"A">>
StoreB == <<"B">>
StoreC == <<"C">>
Empty == <<>>

ProductLetters == <<"P", "Q", "R", "S", "T", "U", "V", "W", "X", "Y", "Z", "A",
                    "B", "C", "D", "E", "F", "G", "H", "I", "J", "K", "L", "M">>
ProductName(k) == <<ProductLetters[k]>>

ProductP == ProductName(1)
ProductQ == ProductName(2)

\* products.find({"isActive": True}, {"productId": 1}), in the store's order
ActiveProducts == [k \in 1..MaxProducts |-> ProductName(k)]
ProductIds == { ProductName(k) : k \in 1..MaxProducts }

\* An entry of the oracle's "opportunities" list, as the oracle's JSON gives it
RawOpp(type, confidence, source_store, target_store) ==
    [type |-> type, confidence |-> confidence,
     source_store |-> source_store, target_store |-> target_store]

OppAB == RawOpp("arbitrage", 80, PyStr(StoreA), PyStr(StoreB))
OppCA == RawOpp("arbitrage", 90, PyStr(StoreC), PyStr(StoreA))
OppBNull == RawOpp("restock", 55, PyStr(StoreB), PyNone)

\* The oracle's parsed JSON object ("result"): it may lack the opportunities key
Result(has, opps) == [has_opportunities |-> has, opportunities |-> opps]

\* result.get('opportunities', [])
ResultOpportunities(result) ==
    IF result.has_opportunities THEN result.opportunities ELSE <<>>

\* The dict that analyze_product hands to update_agent_decision
DecisionOf(result) ==
    [analysis_result |-> result,
     opportunities_found |-> Len(ResultOpportunities(result))]

\* The (product, result) pairs recorded in the store specification
RecordInputs ==
    { <<ProductP, Result(TRUE, <<OppAB, OppCA>>)>>,
      <<ProductQ, Result(TRUE, <<OppBNull>>)>>,
      <<ProductP, Result(FALSE, <<>>)>> }

NoCache == [present |-> FALSE, decision |-> DecisionOf(Result(FALSE, <<>>))]

----------------------------------------------------------------------------
(* DatabaseManager.update_agent_decision *)

\* agent_decisions.insert_one({productId, decision, timestamp}): the store
\* assigns _id; processed_opportunities is absent, read back as []
InsertOne(decs, product_id, decision, now) ==
    Append(decs, [id |-> NewObjectId(Len(decs)),
                  productId |-> product_id,
                  decision |-> decision,
                  timestamp |-> now,
                  processed_opportunities |-> <<>>])

\* redis setex recent_decision:{product_id}
SetEx(cache, product_id, decision) ==
    [cache EXCEPT ![product_id] = [present |-> TRUE, decision |-> decision]]

\* The try block of update_agent_decision: the insert, then the cache write;
\* an exception of either is logged and swallowed
DecisionsAfterUpdate(decs, product_id, decision, now, insert_ok) ==
    IF insert_ok THEN InsertOne(decs, product_id, decision, now) ELSE decs

CacheAfterUpdate(cache, product_id, decision, insert_ok, cache_ok) ==
    IF insert_ok /\ cache_ok THEN SetEx(cache, product_id, decision) ELSE cache

update_agent_decision(product_id, decision, insert_ok, cache_ok) ==
    /\ agent_decisions' =
           DecisionsAfterUpdate(agent_decisions, product_id, decision, clock,
                                insert_ok)
    /\ clock' = IF insert_ok THEN clock + 1 ELSE clock
    /\ recent_decision' =
           CacheAfterUpdate(recent_decision, product_id, decision, insert_ok,
                            cache_ok)

----------------------------------------------------------------------------
(* GET /opportunities: get_recent_opportunities *)

\* {"decision.analysis_result.opportunities": {"$exists": True}}
HasOpportunitiesField(doc) == doc.decision.analysis_result.has_opportunities

RemoveAt(s, k) == SubSeq(s, 1, k - 1) \o SubSeq(s, k + 1, Len(s))

\* .sort("timestamp", -1)
RECURSIVE SortByTimestampDesc(_)
SortByTimestampDesc(s) ==
    IF s = <<>> THEN <<>>
    ELSE LET m == CHOOSE k \in 1..Len(s) :
                      \A j \in 1..Len(s) : s[j].timestamp <= s[k].timestamp
         IN <<s[m]>> \o SortByTimestampDesc(RemoveAt(s, m))

\* cursor.limit(n): 0 means no limit
Limit(s, n) == IF n = 0 \/ Len(s) <= n THEN s ELSE SubSeq(s, 1, n)

\* s[:n] for n >= 0
Truncate(s, n) == IF Len(s) <= n THEN s ELSE SubSeq(s, 1, n)

\* Faulty variant: the query fetches limit Decisions, not twice as many
FindRecent_NoOverfetch(decs, limit) ==
    Limit(SortByTimestampDesc(SelectSeq(decs, HasOpportunitiesField)), limit)

\* find({... $exists}).sort("timestamp", -1).limit(limit * 2)
FindRecent(decs, limit) ==
    Limit(SortByTimestampDesc(SelectSeq(decs, HasOpportunitiesField)), limit * 2)

\* Faulty variant: the identifier does not end with the position
OppId_NoIndex(doc, opp, i) ==
    doc.id \o <<"-">> \o doc.productId
           \o <<"-">> \o Str(Get(opp.source_store, PyStr(Empty)))
           \o <<"-">> \o Str(Get(opp.target_store, PyStr(Empty)))

\* Faulty variant: the identifier does not start with the Decision's _id
OppId_NoDecisionId(doc, opp, i) ==
    doc.productId
           \o <<"-">> \o Str(Get(opp.source_store, PyStr(Empty)))
           \o <<"-">> \o Str(Get(opp.target_store, PyStr(Empty)))
           \o <<"-">> \o Decimal(i)

\* f"{decision_id}-{productId}-{source_store}-{target_store}-{i}"
OppId(doc, opp, i) ==
    doc.id \o <<"-">> \o doc.productId
           \o <<"-">> \o Str(Get(opp.source_store, PyStr(Empty)))
           \o <<"-">> \o Str(Get(opp.target_store, PyStr(Empty)))
           \o <<"-">> \o Decimal(i)

\* Faulty variant: the lookup set is built from a key the audit entries do not have
ProcessedIds_WrongKey(doc) ==
    { Empty : k \in 1..Len(doc.processed_opportunities) }

\* the set of processed opportunity identifiers of a Decision
ProcessedIds(doc) ==
    { doc.processed_opportunities[k].opportunity_id :
          k \in 1..Len(doc.processed_opportunities) }

\* Faulty variant: the test skips the entries that touch the store
PassesStoreFilter_Inverted(opp, storeId) ==
    Truthy(storeId) =>
        ~ \/ Str(Get(opp.source_store, PyStr(Empty))) = storeId.s
          \/ Str(Get(opp.target_store, PyStr(Empty))) = storeId.s

\* the storeId test of the loop body: TRUE when the entry is not skipped
PassesStoreFilter(opp, storeId) ==
    Truthy(storeId) =>
        \/ Str(Get(opp.source_store, PyStr(Empty))) = storeId.s
        \/ Str(Get(opp.target_store, PyStr(Empty))) = storeId.s

\* The entry appended for the opportunity at position i (0-based) of doc.
\* decision_id and index are not part of the response: they name the
\* (Decision, position) the entry was computed from.
ListingEntry(doc, i) ==
    LET opp == doc.decision.analysis_result.opportunities[i + 1]
    IN [id |-> OppId(doc, opp, i),
        product_id |-> doc.productId,
        opportunity |-> opp,
        timestamp |-> doc.timestamp,
        decision_id |-> doc.id,
        index |-> i]

\* The inner loop over enumerate(analysis.get('opportunities', []))
RECURSIVE DecisionEntriesFrom(_, _, _)
DecisionEntriesFrom(doc, storeId, i) ==
    LET opps == ResultOpportunities(doc.decision.analysis_result)
    IN IF i >= Len(opps) THEN <<>>
       ELSE LET e == ListingEntry(doc, i)
                keep == /\ PassesStoreFilter(opps[i + 1], storeId)
                        /\ e.id \notin ProcessedIds(doc)
            IN (IF keep THEN <<e>> ELSE <<>>)
                   \o DecisionEntriesFrom(doc, storeId, i + 1)

\* Faulty variant: the identifier is numbered by the entry's place among the entries
\* kept so far, not by its position in the Decision
RECURSIVE EntriesNumberedAfterFilter(_, _, _, _)
EntriesNumberedAfterFilter(doc, storeId, i, kept) ==
    LET opps == ResultOpportunities(doc.decision.analysis_result)
    IN IF i >= Len(opps) THEN <<>>
       ELSE LET e == [ListingEntry(doc, i) EXCEPT
                          !.id = OppId(doc, opps[i + 1], kept)]
                keep == /\ PassesStoreFilter(opps[i + 1], storeId)
                        /\ e.id \notin ProcessedIds(doc)
            IN IF keep
               THEN <<e>> \o EntriesNumberedAfterFilter(doc, storeId, i + 1,
                                                        kept + 1)
               ELSE EntriesNumberedAfterFilter(doc, storeId, i + 1, kept)

DecisionEntries_NumberedAfterFilter(doc, storeId) ==
    EntriesNumberedAfterFilter(doc, storeId, 0, 0)

DecisionEntries(doc, storeId) == DecisionEntriesFrom(doc, storeId, 0)

\* The outer loop over the fetched decisions
RECURSIVE CollectEntries(_, _)
CollectEntries(docs, storeId) ==
    IF docs = <<>> THEN <<>>
    ELSE DecisionEntries(Head(docs), storeId)
             \o CollectEntries(Tail(docs), storeId)

\* The "opportunities" list of the response
RecentOpportunities(decs, limit, storeId) ==
    Truncate(CollectEntries(FindRecent(decs, limit), storeId), limit)

Limits == 1..MaxLimit
StoreFilters == {PyNone, PyStr(Empty), PyStr(StoreA), PyStr(StoreC)}

\* A response of the API. op names the endpoint; the other fields are those
\* of its body (limit and storeId repeat the request of a listing).
Response(op, status) ==
    [op |-> op, status |-> status,
     limit |-> 0, storeId |-> PyNone, opportunities |-> <<>>,
     opportunity_id |-> <<>>, decision |-> "<None>", updated_records |-> 0]

get_recent_opportunities(limit, storeId) ==
    /\ response' = [Response("opportunities", 200) EXCEPT
                       !.limit = limit, !.storeId = storeId,
                       !.opportunities =
                           RecentOpportunities(agent_decisions, limit, storeId)]
    /\ UNCHANGED <<agent_decisions, clock, marks, marked, requests, recent_decision>>

----------------------------------------------------------------------------
(* POST /opportunities/{opportunity_id}/process: process_opportunity *)

\* request.get('decision'): the body may lack the key
NoDecision == "<None>"
DecisionValues == {"approved", "rejected", "Approved", "", NoDecision}

\* Faulty variant: the check only refuses a missing or empty decision
ValidDecision_NonEmpty(decision) ==
    /\ decision # NoDecision
    /\ decision # ""

\* not (not decision or decision not in ['approved', 'rejected'])
ValidDecision(decision) ==
    /\ decision # NoDecision
    /\ decision # ""
    /\ decision \in {"approved", "rejected"}

\* request.get('tradeId'), request.get('bidId'): absent from the request
NoId == "<None>"

\* request.get('processedAt', datetime.now().isoformat()): the client's stamp
ProcessedAt == "processedAt"

ProcessedEntry(opportunity_id, decision, trade_id, bid_id, processed_at) ==
    [opportunity_id |-> opportunity_id, decision |-> decision,
     trade_id |-> trade_id, bid_id |-> bid_id, processed_at |-> processed_at]

\* Faulty variant: the update sets the list to the new entry ($set, not $push)
Push_Overwrite(doc, entry) ==
    [doc EXCEPT !.processed_opportunities = <<entry>>]

\* {"$push": {"processed_opportunities": entry}} applied to one document
Push(doc, entry) ==
    [doc EXCEPT !.processed_opportunities = Append(@, entry)]

\* Faulty variant: the update is applied to every Decision of the owner's product
UpdateOne_ByProduct(decs, decision_id, entry) ==
    [k \in 1..Len(decs) |->
        IF \E j \in 1..Len(decs) :
               /\ decs[j].id = Lower(decision_id)
               /\ decs[j].productId = decs[k].productId
        THEN Push(decs[k], entry) ELSE decs[k]]

\* update_one({"_id": ObjectId(decision_id)}, {"$push": ...}): the documents
\* after the update; ObjectId parsing is case-insensitive
UpdateOne(decs, decision_id, entry) ==
    [k \in 1..Len(decs) |->
        IF decs[k].id = Lower(decision_id) THEN Push(decs[k], entry) ELSE decs[k]]

\* Faulty variant: the fallback only updates the Decisions that still expose an
\* unprocessed opportunity
UpdateMany_OnlyExposing(decs, entry) ==
    [k \in 1..Len(decs) |->
        IF /\ HasOpportunitiesField(decs[k])
           /\ \E i \in 1..Len(decs[k].decision.analysis_result.opportunities) :
                  OppId(decs[k],
                        decs[k].decision.analysis_result.opportunities[i],
                        i - 1) \notin ProcessedIds(decs[k])
        THEN Push(decs[k], entry) ELSE decs[k]]

\* update_many({"decision.analysis_result.opportunities": {"$exists": True}},
\*             {"$push": ...})
UpdateMany(decs, entry) ==
    [k \in 1..Len(decs) |->
        IF HasOpportunitiesField(decs[k]) THEN Push(decs[k], entry) ELSE decs[k]]

\* update_result.modified_count: a $push modifies every document it matches
ModifiedCount(before, after) ==
    Cardinality({k \in 1..Len(before) : before[k] # after[k]})

\* opportunity_id.split('-')[0] if '-' in opportunity_id else None
ExtractDecisionId(opportunity_id) ==
    IF Contains(opportunity_id, "-")
    THEN PyStr(SplitFirst(opportunity_id, "-"))
    ELSE PyNone

\* Faulty variant: an update_one that matched no document is followed by the
\* broad update
ProcessUpdate_FallbackOnMiss(decs, opportunity_id, entry) ==
    LET decision_id == ExtractDecisionId(opportunity_id)
    IN IF Truthy(decision_id) /\ IsObjectId(decision_id.s)
       THEN IF UpdateOne(decs, decision_id.s, entry) = decs
            THEN UpdateMany(decs, entry)
            ELSE UpdateOne(decs, decision_id.s, entry)
       ELSE UpdateMany(decs, entry)

\* Faulty variant: a request for an identifier that already has an audit
\* entry updates nothing
ProcessUpdate_OncePerId(decs, opportunity_id, entry) ==
    LET decision_id == ExtractDecisionId(opportunity_id)
    IN IF \E k \in 1..Len(decs) : opportunity_id \in ProcessedIds(decs[k])
       THEN decs
       ELSE IF Truthy(decision_id) /\ IsObjectId(decision_id.s)
            THEN UpdateOne(decs, decision_id.s, entry)
            ELSE UpdateMany(decs, entry)

\* The documents after the update that process_opportunity performs for a
\* valid decision value: update_one when the leading component parses as an
\* ObjectId, the update_many fallback otherwise
ProcessUpdate(decs, opportunity_id, entry) ==
    LET decision_id == ExtractDecisionId(opportunity_id)
    IN IF Truthy(decision_id)
       THEN IF IsObjectId(decision_id.s)
            THEN UpdateOne(decs, decision_id.s, entry)
            ELSE UpdateMany(decs, entry)
       ELSE UpdateMany(decs, entry)

\* TRUE when process_opportunity takes one of the two update_many branches
TakesFallback(opportunity_id) ==
    LET decision_id == ExtractDecisionId(opportunity_id)
    IN ~(Truthy(decision_id) /\ IsObjectId(decision_id.s))

\* The identifiers of the listing a client holds
ListedIds ==
    { response.opportunities[k].id : k \in 1..Len(response.opportunities) }

process_opportunity(opportunity_id, decision, trade_id, bid_id) ==
    /\ IF ~ValidDecision(decision)
       THEN \* HTTPException(status_code=400, detail=...)
            /\ response' = Response("process", 400)
            /\ UNCHANGED <<agent_decisions, marks, marked>>
       ELSE LET entry == ProcessedEntry(opportunity_id, decision, trade_id,
                                        bid_id, ProcessedAt)
                after == ProcessUpdate(agent_decisions, opportunity_id, entry)
                count == ModifiedCount(agent_decisions, after)
            IN /\ marks < MaxMarks
               /\ marks' = marks + 1
               /\ agent_decisions' = after
               /\ response' = [Response("process", 200) EXCEPT
                                   !.opportunity_id = opportunity_id,
                                   !.decision = decision,
                                   !.updated_records = count]
               /\ marked' = IF opportunity_id \in ListedIds /\ count > 0
                            THEN marked \cup {opportunity_id}
                            ELSE marked
    /\ UNCHANGED <<clock, recent_decision, requests>>

\* Identifiers sent by a client that did not take them from a listing
UnknownDecisionId == NewObjectId(9) \o <<"-", "P", "-", "A", "-", "B", "-", "0">>
NoPositionId == NewObjectId(0) \o <<"-", "P", "-", "A", "-", "B", "-", "7">>
NoDashId == <<"x">>
BadLeadingId == <<"z", "z", "-", "0">>
EmptyLeadingId == <<"-", "0">>
ForeignIds == {UnknownDecisionId, NoPositionId, NoDashId, BadLeadingId,
               EmptyLeadingId}

----------------------------------------------------------------------------
(* The state of a cycle *)

\* self.crews = {}: product id -> the crew built for it
NoCrews == [p \in {} |-> 0]

\* One step of a run, kept in the order the steps happen: e is "start" and
\* "finish" for manage_product entered and returned, "crew" for a crew
\* built, "kickoff" for crew.kickoff() called, "agent" for an agent built,
\* "request" for a request received and "sleep" for the pacing delay
\* elapsed; inst numbers the crew concerned, cycle and orchestrator tell
\* which manage_all_products and which AIAgentOrchestrator it happened in
Event(e, product_id, inst, cycle, orchestrator) ==
    [e |-> e, product_id |-> product_id, inst |-> inst, cycle |-> cycle,
     orchestrator |-> orchestrator]

----------------------------------------------------------------------------
(* The decision store API *)

CycleIdle ==
    /\ network_decisions = <<>>
    /\ bids = <<>>
    /\ runner = [pc |-> "idle", product_ids |-> <<>>, results |-> <<>>,
                 faults |-> <<>>, persisted |-> <<>>, cycles |-> 0,
                 events |-> <<>>]
    /\ orch = [pc |-> "idle", product_ids |-> <<>>, i |-> 0, t |-> 0,
               batch_results |-> <<>>, results |-> <<>>, faults |-> <<>>,
               crews |-> NoCrews, running |-> {}, calls |-> <<>>,
               cycles |-> 0, epoch |-> 0, events |-> <<>>]
    /\ gate = [n |-> 0]
    /\ analysis = [n |-> 0]
    /\ loop = [pc |-> "idle"]

StoreInit ==
    /\ deployment = "simple"
    /\ CycleIdle
    /\ agent_decisions = <<>>
    /\ clock = 1
    /\ response = Response("none", 0)
    /\ marks = 0
    /\ marked = {}
    /\ requests = <<>>
    /\ recent_decision = [p \in ProductIds |-> NoCache]

RecordWith(inputs) ==
    /\ Len(agent_decisions) < MaxDecisions
    /\ \E in \in inputs :
           update_agent_decision(in[1], DecisionOf(in[2]), TRUE, TRUE)
    /\ response' = Response("analyze", 200)
    /\ UNCHANGED <<marks, marked, requests>>
    /\ UNCHANGED cycle_vars

Record == RecordWith(RecordInputs)

ListOpportunities ==
    /\ \E limit \in Limits, storeId \in StoreFilters :
           get_recent_opportunities(limit, storeId)
    /\ UNCHANGED cycle_vars

\* The requests of the store specification: every decision value for a
\* listed identifier, an accepted one for the others
MarkInputs ==
    ((ListedIds \cup marked) \X DecisionValues)
        \cup (ForeignIds \X {"approved"})

MarkProcessed ==
    /\ \E in \in MarkInputs : process_opportunity(in[1], in[2], NoId, NoId)
    /\ UNCHANGED cycle_vars

Init == StoreInit

Next == Record \/ ListOpportunities \/ MarkProcessed

Spec == Init /\ [][Next]_vars

----------------------------------------------------------------------------
(* The oracle's replies and the opportunities built from them *)

\* a confidence that float() rejects (a JSON string such as "high")
NotANumber == -1

OppNoSource == RawOpp("arbitrage", 90, PyNone, PyStr(StoreB))
OppLow == RawOpp("arbitrage", 65, PyStr(StoreA), PyStr(StoreB))
OppRestock == RawOpp("restock", 75, PyStr(StoreB), PyStr(StoreC))
OppBadConfidence ==
    RawOpp("arbitrage", NotANumber, PyStr(StoreA), PyStr(StoreB))

\* model.generate_content(prompt) raises, or returns text that json.loads
\* rejects ("garbage") or parses ("json") into result
OracleReply(kind, result) == [kind |-> kind, result |-> result]

ReplyRaises == OracleReply("raise", Result(FALSE, <<>>))
ReplyGarbage == OracleReply("garbage", Result(FALSE, <<>>))
ReplyTrade == OracleReply("json", Result(TRUE, <<OppAB, OppLow>>))
ReplyNoSource == OracleReply("json", Result(TRUE, <<OppNoSource, OppRestock>>))
ReplyBadConfidence == OracleReply("json", Result(TRUE, <<OppBadConfidence>>))
ReplyNoField == OracleReply("json", Result(FALSE, <<>>))
ReplyMixed ==
    OracleReply("json", Result(TRUE, <<OppAB, OppBadConfidence, OppRestock>>))

\* opp.get('source_store') or ''
OrEmpty(v) == IF Truthy(Get(v, PyNone)) THEN v ELSE PyStr(Empty)

\* MarketOpportunity(...) of simple_ai_agent.py
SimpleOpportunity(opp) ==
    [type |-> opp.type, confidence |-> opp.confidence,
     source_store |-> OrEmpty(opp.source_store),
     target_store |-> OrEmpty(opp.target_store)]

\* MarketOpportunity(...) of gemini_agent.py: opp.get('source_store', '')
GeminiOpportunity(opp) ==
    [type |-> opp.type, confidence |-> opp.confidence,
     source_store |-> Get(opp.source_store, PyStr(Empty)),
     target_store |-> Get(opp.target_store, PyStr(Empty))]

\* float(opp.get('confidence', 0)) succeeds for every entry
Coercible(opps) == \A k \in 1..Len(opps) : opps[k].confidence # NotANumber

\* What analyze_product returns and whether it reaches update_agent_decision;
\* fault names the exception it swallowed, "none" when there was none
Analysis(opportunities, stores, fault) ==
    [opportunities |-> opportunities, stores |-> stores, fault |-> fault]

\* SimpleAIAgent.analyze_product
SimpleAnalyzeProduct(reply) ==
    IF reply.kind = "raise" THEN Analysis(<<>>, FALSE, "oracle")
    ELSE IF reply.kind = "garbage" THEN Analysis(<<>>, FALSE, "parse")
    ELSE LET raw == ResultOpportunities(reply.result)
         IN IF ~Coercible(raw) THEN Analysis(<<>>, FALSE, "coerce")
            ELSE Analysis([k \in 1..Len(raw) |-> SimpleOpportunity(raw[k])],
                          TRUE, "none")

\* GeminiAgent.analyze_product
GeminiAnalyzeProduct(reply) ==
    IF reply.kind = "raise" THEN Analysis(<<>>, FALSE, "oracle")
    ELSE IF reply.kind = "garbage" THEN Analysis(<<>>, FALSE, "parse")
    ELSE LET raw == ResultOpportunities(reply.result)
         IN IF ~Coercible(raw) THEN Analysis(<<>>, FALSE, "coerce")
            ELSE Analysis([k \in 1..Len(raw) |-> GeminiOpportunity(raw[k])],
                          TRUE, "none")

----------------------------------------------------------------------------
(* SimpleAIAgent._prepare_analysis_context: the candidate arbitrage pairs *)

HighStockQuantity == 200
DefaultReorderPoint == 50
MinQuantityDiff == 100
PairCap == 10

\* an inventory document; a field is <<>> when the document lacks the key
Inventory(storeId, quantity, reorderPoint) ==
    [storeId |-> storeId, quantity |-> quantity,
     reorderPoint |-> reorderPoint]

\* inv.get(key, default) of an integer field
GetInt(field, default) == IF field = <<>> THEN default ELSE field[1]

Quantity(inv) == GetInt(inv.quantity, 0)
ReorderPoint(inv) == GetInt(inv.reorderPoint, DefaultReorderPoint)

\* inv.get('quantity', 0) > 200
HighStock(inv) == Quantity(inv) > HighStockQuantity

\* inv.get('quantity', 0) < inv.get('reorderPoint', 50) * 0.5
CriticalLow(inv) == 2 * Quantity(inv) < ReorderPoint(inv)

\* the dict appended for a (high_store, low_store) pair
ArbitragePair(high_store, low_store) ==
    [source_store |-> high_store.storeId,
     target_store |-> low_store.storeId,
     source_quantity |-> Quantity(high_store),
     target_quantity |-> Quantity(low_store),
     quantity_diff |-> Quantity(high_store) - Quantity(low_store),
     target_reorder_point |-> ReorderPoint(low_store)]

Qualifies_AnyDiff(high_store, low_store) ==
    high_store.storeId # low_store.storeId

\* the two tests of the inner loop
Qualifies(high_store, low_store) ==
    /\ high_store.storeId # low_store.storeId
    /\ Quantity(high_store) - Quantity(low_store) > MinQuantityDiff

\* the inner loop: for high_store in high_stock_stores
PairsOfLow(low_store, high_stock_stores) ==
    LET q == SelectSeq(high_stock_stores,
                       LAMBDA high_store : Qualifies(high_store, low_store))
    IN [k \in 1..Len(q) |-> ArbitragePair(q[k], low_store)]

\* the outer loop: for low_store in critical_low_stores
RECURSIVE PairsOfLows(_, _)
PairsOfLows(critical_low_stores, high_stock_stores) ==
    IF critical_low_stores = <<>> THEN <<>>
    ELSE PairsOfLow(Head(critical_low_stores), high_stock_stores)
         \o PairsOfLows(Tail(critical_low_stores), high_stock_stores)

\* arbitrage_opportunities as the loops leave it, before the cap
ArbitrageOpportunities(inventory_levels) ==
    PairsOfLows(SelectSeq(inventory_levels, CriticalLow),
                SelectSeq(inventory_levels, HighStock))

\* arbitrage_opportunities[:10]
Capped(pairs) == Truncate(pairs, PairCap)

\* the 'arbitrage_opportunities' entry of the context
PrepareAnalysisContext(inventory_levels) ==
    [arbitrage_opportunities |->
         Capped(ArbitrageOpportunities(inventory_levels))]

----------------------------------------------------------------------------
(* The execution gate: execute_opportunity *)

\* confidences are hundredths: 0.6 is 60
SimpleArbitrageThreshold == 60
SimpleRestockThreshold == 50
GeminiArbitrageThreshold == 70
GeminiRestockThreshold == 60
ExecuteThreshold == 70

\* requests.post raised: no response of the backend
NoResponse == 0
BackendReplies == {201, 500, NoResponse}

\* bid_data, with the backend's answer to its POST
Bid(product_id, opp, http) ==
    [productId |-> product_id,
     sourceStoreId |-> opp.source_store,
     targetStoreId |-> opp.target_store,
     status_code |-> http]

\* the dict the gate returns (status, action, reason; "" for a key it does
\* not have), and the bid it POSTed
GateResult(status, action, reason, posted) ==
    [status |-> status, action |-> action, reason |-> reason,
     posted |-> posted]

\* Faulty variant: a bid the backend refused is POSTed a second time
Gate_Retry(product_id, opp, http, arbitrage, restock) ==
    IF opp.type = "arbitrage" /\ opp.confidence > arbitrage
    THEN IF http = NoResponse
         THEN GateResult("error", "", "", <<Bid(product_id, opp, http)>>)
         ELSE IF http = 201
         THEN GateResult("success", "bid_created", "",
                         <<Bid(product_id, opp, http)>>)
         ELSE GateResult("failed", "", "",
                         <<Bid(product_id, opp, http),
                           Bid(product_id, opp, http)>>)
    ELSE IF opp.type = "restock" /\ opp.confidence > restock
    THEN GateResult("logged", "restock_recommendation", "", <<>>)
    ELSE GateResult("skipped", "", "low_confidence", <<>>)

\* Faulty variant: a restock recommendation is POSTed as a bid
Gate_RestockPosts(product_id, opp, http, arbitrage, restock) ==
    IF opp.type = "arbitrage" /\ opp.confidence > arbitrage
    THEN IF http = NoResponse
         THEN GateResult("error", "", "", <<Bid(product_id, opp, http)>>)
         ELSE IF http = 201
         THEN GateResult("success", "bid_created", "",
                         <<Bid(product_id, opp, http)>>)
         ELSE GateResult("failed", "", "", <<Bid(product_id, opp, http)>>)
    ELSE IF opp.type = "restock" /\ opp.confidence > restock
    THEN GateResult("logged", "restock_recommendation", "",
                    <<Bid(product_id, opp, http)>>)
    ELSE GateResult("skipped", "", "low_confidence", <<>>)

\* the body shared by the two execute_opportunity methods
Gate(product_id, opp, http, arbitrage, restock) ==
    IF opp.type = "arbitrage" /\ opp.confidence > arbitrage
    THEN IF http = NoResponse
         THEN GateResult("error", "", "", <<Bid(product_id, opp, http)>>)
         ELSE IF http = 201
         THEN GateResult("success", "bid_created", "",
                         <<Bid(product_id, opp, http)>>)
         ELSE GateResult("failed", "", "", <<Bid(product_id, opp, http)>>)
    ELSE IF opp.type = "restock" /\ opp.confidence > restock
    THEN GateResult("logged", "restock_recommendation", "", <<>>)
    ELSE GateResult("skipped", "", "low_confidence", <<>>)

\* Faulty variant: the single-agent gate with the orchestrator's thresholds
SimpleExecuteOpportunity_Strict(product_id, opp, http) ==
    Gate(product_id, opp, http, GeminiArbitrageThreshold,
         GeminiRestockThreshold)

\* SimpleAIAgent.execute_opportunity
SimpleExecuteOpportunity(product_id, opp, http) ==
    Gate(product_id, opp, http, SimpleArbitrageThreshold,
         SimpleRestockThreshold)

\* GeminiAgent.execute_opportunity
GeminiExecuteOpportunity(product_id, opp, http) ==
    Gate(product_id, opp, http, GeminiArbitrageThreshold,
         GeminiRestockThreshold)

\* the entry of executed_actions: the dict the gate returned
ActionOf(g) ==
    [status |-> g.status, action |-> g.action, reason |-> g.reason]

Executed(actions, posted) == [actions |-> actions, posted |-> posted]

\* Faulty variant: every opportunity is passed to the gate
RECURSIVE ExecuteHighConfidence_All(_, _, _, _)
ExecuteHighConfidence_All(product_id, opps, http, k) ==
    IF k > Len(opps) THEN Executed(<<>>, <<>>)
    ELSE LET rest == ExecuteHighConfidence_All(product_id, opps, http, k + 1)
             g == SimpleExecuteOpportunity(product_id, opps[k], http[k])
         IN Executed(<<ActionOf(g)>> \o rest.actions, g.posted \o rest.posted)

\* for opportunity in opportunities: if opportunity.confidence > 0.7: ...
RECURSIVE ExecuteHighConfidence(_, _, _, _)
ExecuteHighConfidence(product_id, opps, http, k) ==
    IF k > Len(opps) THEN Executed(<<>>, <<>>)
    ELSE LET rest == ExecuteHighConfidence(product_id, opps, http, k + 1)
         IN IF opps[k].confidence > ExecuteThreshold
            THEN LET g == SimpleExecuteOpportunity(product_id, opps[k], http[k])
                 IN Executed(<<ActionOf(g)>> \o rest.actions,
                             g.posted \o rest.posted)
            ELSE rest

\* the Marketplace Tool called for every opportunity the analysis returned
RECURSIVE ExecuteAll(_, _, _, _)
ExecuteAll(product_id, opps, http, k) ==
    IF k > Len(opps) THEN Executed(<<>>, <<>>)
    ELSE LET rest == ExecuteAll(product_id, opps, http, k + 1)
             g == GeminiExecuteOpportunity(product_id, opps[k], http[k])
         IN Executed(<<ActionOf(g)>> \o rest.actions, g.posted \o rest.posted)

\* the opportunities the gate is evaluated on: every type the prompt
\* names and one it does not, at confidences on and around the thresholds
GateTypes == {"arbitrage", "restock", "price_optimization", "unknown"}
GateConfidences == {0, 50, 55, 60, 65, 70, 75, 100}
GateOpportunities ==
    { SimpleOpportunity(RawOpp(type, confidence, PyStr(StoreA),
                               PyStr(StoreB))) :
        type \in GateTypes, confidence \in GateConfidences }

\* one call of execute_opportunity, on the agent of either path, and the
\* bid it POSTs
ExecuteOpportunity ==
    /\ gate.n < MaxEvaluations
    /\ \E opp \in GateOpportunities, http \in BackendReplies :
           LET g == IF deployment = "simple"
                    THEN SimpleExecuteOpportunity(ProductP, opp, http)
                    ELSE GeminiExecuteOpportunity(ProductP, opp, http)
           IN /\ g.posted = <<>> => http = 201
              /\ gate' = [n |-> gate.n + 1, opportunity |-> opp,
                          http |-> http, result |-> ActionOf(g)]
              /\ bids' = bids \o g.posted
    /\ UNCHANGED <<store_vars, network_decisions, deployment, runner, orch,
                   analysis, loop>>

GateInit ==
    /\ deployment \in {"simple", "crew"}
    /\ CycleIdle
    /\ agent_decisions = <<>>
    /\ clock = 1
    /\ response = Response("none", 0)
    /\ marks = 0
    /\ marked = {}
    /\ requests = <<>>
    /\ recent_decision = [p \in ProductIds |-> NoCache]

GateNext == ExecuteOpportunity

SpecGate == GateInit /\ [][GateNext]_vars

----------------------------------------------------------------------------
(* AgentRunner: the sequential cycle of simple_ai_agent.py *)

\* the dict run_agent_for_product returns; error: it has the 'error' key
RunResult(product_id, opps, actions) ==
    [error |-> FALSE, product_id |-> PyStr(product_id),
     opportunities_found |-> Len(opps), opportunities |-> opps,
     actions_executed |-> Len(actions), executed_actions |-> actions]

ErrorResult ==
    [error |-> TRUE, product_id |-> Missing,
     opportunities_found |-> 0, opportunities |-> <<>>,
     actions_executed |-> 0, executed_actions |-> <<>>]

\* What one run does: the dict it returns, whether and what it persists,
\* the bids it posts, and the fault it met ("none" when it met none)
Outcome(result, fault, stores, decision, posted) ==
    [result |-> result, fault |-> fault, stores |-> stores,
     decision |-> decision, posted |-> posted]

NoDecisionDict == DecisionOf(Result(FALSE, <<>>))

\* Faulty variant: a product without data is analysed all the same
RunAgentForProduct_IgnoresMissing(product_id, in) ==
    IF ~in.agent_ok
    THEN Outcome(ErrorResult, "agent", FALSE, NoDecisionDict, <<>>)
    ELSE LET a == SimpleAnalyzeProduct(in.reply)
             ex == ExecuteHighConfidence(product_id, a.opportunities,
                                         in.http, 1)
         IN Outcome(RunResult(product_id, a.opportunities, ex.actions),
                    a.fault, a.stores, DecisionOf(in.reply.result), ex.posted)

\* AgentRunner.run_agent_for_product
RunAgentForProduct(product_id, in) ==
    IF ~in.agent_ok
    THEN Outcome(ErrorResult, "agent", FALSE, NoDecisionDict, <<>>)
    ELSE IF ~in.found
    THEN Outcome(ErrorResult, "not_found", FALSE, NoDecisionDict, <<>>)
    ELSE LET a == SimpleAnalyzeProduct(in.reply)
             ex == ExecuteHighConfidence(product_id, a.opportunities,
                                         in.http, 1)
         IN Outcome(RunResult(product_id, a.opportunities, ex.actions),
                    a.fault, a.stores, DecisionOf(in.reply.result), ex.posted)

OracleReplies == {ReplyRaises, ReplyGarbage, ReplyTrade, ReplyNoSource,
                  ReplyBadConfidence, ReplyNoField}

\* the outcomes of insert_one and setex: the cache write is not reached
\* when the insert raises
StoreOutcomes == {<<TRUE, TRUE>>, <<TRUE, FALSE>>, <<FALSE, FALSE>>}

SimplePosts(opp) ==
    /\ opp.confidence > ExecuteThreshold
    /\ SimpleExecuteOpportunity(ProductP, opp, 201).posted # <<>>

GeminiPosts(opp) == GeminiExecuteOpportunity(ProductP, opp, 201).posted # <<>>

\* the backend's answers to the POSTs of one run, one per opportunity
\* position; positions that post nothing get no choice
SimpleHttpChoices(opps) ==
    { h \in [1..Len(opps) -> BackendReplies] :
        \A k \in 1..Len(opps) : ~SimplePosts(opps[k]) => h[k] = 201 }

GeminiHttpChoices(opps) ==
    { h \in [1..Len(opps) -> BackendReplies] :
        \A k \in 1..Len(opps) : ~GeminiPosts(opps[k]) => h[k] = 201 }

AgentInput(agent_ok, found, reply, store, http) ==
    [agent_ok |-> agent_ok, found |-> found, reply |-> reply,
     insert_ok |-> store[1], cache_ok |-> store[2], http |-> http]

\* the environments of one run of the single-agent path
AgentInputs ==
    { AgentInput(FALSE, TRUE, ReplyRaises, <<TRUE, TRUE>>, <<>>),
      AgentInput(TRUE, FALSE, ReplyRaises, <<TRUE, TRUE>>, <<>>) }
    \cup
    UNION { LET a == SimpleAnalyzeProduct(reply)
            IN { AgentInput(TRUE, TRUE, reply, store, http) :
                   store \in IF a.stores THEN StoreOutcomes
                             ELSE {<<TRUE, TRUE>>},
                   http \in SimpleHttpChoices(a.opportunities) }
            : reply \in OracleReplies }

\* the effects of one analysis on the decision collection, the clock, the
\* cache and the backend
Persist(decs, product_id, out, in) ==
    IF out.stores
    THEN DecisionsAfterUpdate(decs, product_id, out.decision, clock,
                              in.insert_ok)
    ELSE decs

\* how update_agent_decision ended: "skipped" when the run did not reach it,
\* "insert" or "cache" when insert_one or setex raised, "stored" otherwise
Persisted(out, in) ==
    IF ~out.stores THEN "skipped"
    ELSE IF ~in.insert_ok THEN "insert"
    ELSE IF ~in.cache_ok THEN "cache"
    ELSE "stored"

Effects(product_id, out, in) ==
    /\ clock' = IF out.stores /\ in.insert_ok THEN clock + 1 ELSE clock
    /\ recent_decision' =
           IF out.stores
           THEN CacheAfterUpdate(recent_decision, product_id, out.decision,
                                 in.insert_ok, in.cache_ok)
           ELSE recent_decision
    /\ bids' = bids \o out.posted

\* the events of kind e in a log
EventsOf(events, e) == { k \in 1..Len(events) : events[k].e = e }

\* run_agents_for_all_products: the products query
RunnerQuery(r, query_ok) ==
    IF query_ok
    THEN [r EXCEPT !.pc = "loop", !.product_ids = ActiveProducts,
                   !.results = <<>>, !.faults = <<>>, !.persisted = <<>>,
                   !.cycles = @ + 1]
    ELSE [r EXCEPT !.pc = "done", !.product_ids = <<>>,
                   !.results = <<ErrorResult>>, !.faults = <<>>,
                   !.persisted = <<>>, !.cycles = @ + 1]

RunnerStart ==
    /\ deployment = "simple"
    /\ runner.pc = "idle"
    /\ \E query_ok \in BOOLEAN : runner' = RunnerQuery(runner, query_ok)
    /\ UNCHANGED <<store_vars, network_decisions, bids, deployment, gate,
                   analysis, loop, orch>>

\* SimpleAIAgent(product_id, self.db_manager): a new agent for every run
AgentBuilt(r, product_id, agent_ok) ==
    IF agent_ok
    THEN Append(r.events,
                Event("agent", product_id,
                      Cardinality(EventsOf(r.events, "agent")) + 1,
                      r.cycles, 0))
    ELSE r.events

\* the steps of one run, in order: the agent built, get_product_data
\* returning None ("missing"), model.generate_content called ("oracle")
RunEvents(r, product_id, in, out) ==
    LET built == AgentBuilt(r, product_id, in.agent_ok)
        fetched == IF in.agent_ok /\ ~in.found
                   THEN Append(built,
                               Event("missing", product_id, 0, r.cycles, 0))
                   ELSE built
    IN IF out.fault \notin {"agent", "not_found"}
       THEN Append(fetched, Event("oracle", product_id, 0, r.cycles, 0))
       ELSE fetched

\* one iteration of the loop: run_agent_for_product, append, sleep(1)
RunnerStepWith(inputs) ==
    /\ deployment = "simple"
    /\ runner.pc = "loop"
    /\ Len(runner.results) < Len(runner.product_ids)
    /\ LET product_id == runner.product_ids[Len(runner.results) + 1]
       IN \E in \in inputs :
              LET out == RunAgentForProduct(product_id, in)
              IN /\ agent_decisions' =
                        Persist(agent_decisions, product_id, out, in)
                 /\ Effects(product_id, out, in)
                 /\ runner' =
                        [runner EXCEPT
                            !.results = Append(@, out.result),
                            !.faults = Append(@, out.fault),
                            !.persisted = Append(@, Persisted(out, in)),
                            !.events =
                                RunEvents(runner, product_id, in, out)]
    /\ UNCHANGED <<response, marks, marked, requests, network_decisions,
                   deployment, gate, analysis, loop, orch>>

RunnerStep == RunnerStepWith(AgentInputs)

\* return results
RunnerReturn ==
    /\ deployment = "simple"
    /\ runner.pc = "loop"
    /\ Len(runner.results) = Len(runner.product_ids)
    /\ runner' = [runner EXCEPT !.pc = "done"]
    /\ UNCHANGED <<store_vars, network_decisions, bids, deployment, gate,
                   analysis, loop, orch>>

----------------------------------------------------------------------------
(* AIAgentOrchestrator: the batched cycle of crew_orchestrator.py *)

BatchSize == 5

\* the dict manage_product returns
OrchResult(product_id, status) ==
    [error |-> status = "error", product_id |-> PyStr(product_id),
     status |-> status]

\* [{"error": str(e)}] of manage_all_products
OrchFailure == [error |-> TRUE, product_id |-> Missing, status |-> "<None>"]

\* ProductAnalysisTool._run
ProductAnalysisTool(product_id, in) ==
    IF ~in.agent_ok
    THEN Outcome(ErrorResult, "agent", FALSE, NoDecisionDict, <<>>)
    ELSE IF ~in.found
    THEN Outcome(ErrorResult, "not_found", FALSE, NoDecisionDict, <<>>)
    ELSE LET a == GeminiAnalyzeProduct(in.reply)
         IN Outcome(RunResult(product_id, a.opportunities, <<>>),
                    a.fault, a.stores, DecisionOf(in.reply.result), <<>>)

\* MarketplaceTool._run("execute_opportunity", ...), for each opportunity
\* of the analysis
MarketplaceTool(product_id, opps, http) == ExecuteAll(product_id, opps, http, 1)

\* crew.kickoff(): the tools its agents call, and whether it raises
Kick(raises, tools, in) == [raises |-> raises, tools |-> tools, in |-> in]

KickReplies == {ReplyRaises, ReplyTrade, ReplyNoSource}

NoToolInput == AgentInput(TRUE, TRUE, ReplyRaises, <<TRUE, TRUE>>, <<>>)

KickInputs ==
    { Kick(raises, "none", NoToolInput) : raises \in BOOLEAN }
    \cup
    { Kick(raises, "analysis",
           AgentInput(TRUE, TRUE, reply, <<TRUE, TRUE>>, <<>>)) :
        raises \in BOOLEAN, reply \in KickReplies }
    \cup
    UNION { { Kick(raises, "execute",
                   AgentInput(TRUE, TRUE, reply, <<TRUE, TRUE>>, http)) :
                raises \in BOOLEAN,
                http \in GeminiHttpChoices(
                            GeminiAnalyzeProduct(reply).opportunities) }
            : reply \in KickReplies }

\* what the tools of one kickoff do
Kickoff(product_id, kick) ==
    IF kick.tools = "none"
    THEN Outcome(ErrorResult, "none", FALSE, NoDecisionDict, <<>>)
    ELSE LET a == ProductAnalysisTool(product_id, kick.in)
         IN IF kick.tools = "analysis" THEN a
            ELSE [a EXCEPT !.posted =
                     MarketplaceTool(product_id, a.result.opportunities,
                                     kick.in.http).posted]

Min(a, b) == IF a < b THEN a ELSE b

\* Faulty variant: the slice starts one product early
Batch_Overlapping(o) ==
    SubSeq(o.product_ids, IF o.i = 0 THEN 1 ELSE o.i,
           Min(o.i + BatchSize, Len(o.product_ids)))

\* product_ids[i:i + batch_size]
Batch(o) == SubSeq(o.product_ids, o.i + 1,
                   Min(o.i + BatchSize, Len(o.product_ids)))

\* the next iteration of "for i in range(0, len(product_ids), batch_size)"
EnterBatch(o, i) ==
    IF i < Len(o.product_ids)
    THEN [o EXCEPT !.pc = "gather", !.i = i, !.t = 0, !.batch_results = <<>>]
    ELSE [o EXCEPT !.pc = "done", !.i = i]

OrchEvent(o, e, product_id, inst) ==
    Event(e, product_id, inst, o.cycles, o.epoch)

\* orchestrator = AIAgentOrchestrator(): self.crews = {}
NewOrchestrator(o) == [o EXCEPT !.crews = NoCrews, !.epoch = @ + 1]

\* manage_all_products up to its first batch: the products query
ProductsQuery(o, products, query_ok) ==
    LET c == [o EXCEPT !.cycles = @ + 1, !.product_ids = <<>>,
                       !.results = <<>>, !.faults = <<>>,
                       !.batch_results = <<>>, !.i = 0, !.t = 0]
    IN IF query_ok
       THEN EnterBatch([c EXCEPT !.product_ids = products], 0)
       ELSE [c EXCEPT !.pc = "done", !.results = <<OrchFailure>>]

\* run_agent_cycle, and the first pass of agent_loop: a new orchestrator
\* and its manage_all_products
OrchStartOn(products) ==
    /\ deployment = "crew"
    /\ orch.pc = "idle"
    /\ \E query_ok \in BOOLEAN :
           orch' = ProductsQuery(NewOrchestrator(orch), products, query_ok)
    /\ UNCHANGED <<store_vars, network_decisions, bids, deployment, gate,
                   analysis, loop, runner>>

OrchStart == OrchStartOn(ActiveProducts)

\* a manage_product call that has been entered and has not returned: who
\* awaits it, its product and the crew it holds (NoCrew: building it raised)
NoCrew == 0
Task(src, product_id, crew) ==
    [src |-> src, product_id |-> product_id, crew |-> crew]

\* Faulty variant: the cache is never consulted
CachedCrew_Never(crews, product_id) == FALSE

\* product_id in self.crews
CachedCrew(crews, product_id) == product_id \in DOMAIN crews

\* Faulty variant: the cache holds the crew built last and no other
SetCrew_Single(crews, product_id, crew) == [p \in {product_id} |-> crew]

\* self.crews[product_id] = crew
SetCrew(crews, product_id, crew) ==
    [p \in DOMAIN crews \cup {product_id} |->
        IF p = product_id THEN crew ELSE crews[p]]

\* manage_product up to "crew = self.crews[product_id]"
EnterManageProduct(o, src, product_id, crew_ok) ==
    LET started == Append(o.events, OrchEvent(o, "start", product_id, NoCrew))
        built == Cardinality(EventsOf(o.events, "crew")) + 1
    IN IF CachedCrew(o.crews, product_id)
       THEN [o EXCEPT
                !.running = @ \cup {Task(src, product_id,
                                         o.crews[product_id])},
                !.events = started]
       ELSE IF crew_ok
       THEN [o EXCEPT
                !.crews = SetCrew(@, product_id, built),
                !.running = @ \cup {Task(src, product_id, built)},
                !.events =
                    Append(started, OrchEvent(o, "crew", product_id, built))]
       ELSE [o EXCEPT
                !.running = @ \cup {Task(src, product_id, NoCrew)},
                !.events = started]

\* the return of manage_product: to the gather of its batch, or to the
\* endpoint that awaited it
LeaveManageProduct(o, task, status, fault, events) ==
    LET left == [o EXCEPT
                    !.running = @ \ {task},
                    !.events =
                        Append(events,
                               OrchEvent(o, "finish", task.product_id,
                                         task.crew))]
    IN IF task.src = "batch"
       THEN [left EXCEPT
                !.t = @ + 1,
                !.batch_results =
                    Append(@, OrchResult(task.product_id, status)),
                !.faults = Append(@, fault)]
       ELSE left

\* manage_product entered as the next task of the batch. It has no await:
\* a task of the gather starts when the one before it has returned, in the
\* batch's order
ManageProductOn(crew_oks) ==
    /\ deployment = "crew"
    /\ orch.pc = "gather"
    /\ orch.t < Len(Batch(orch))
    /\ orch.running = {}
    /\ \E crew_ok \in crew_oks :
           orch' = EnterManageProduct(orch, "batch",
                                      Batch(orch)[orch.t + 1], crew_ok)
    /\ UNCHANGED <<store_vars, network_decisions, bids, deployment, gate,
                   analysis, loop, runner>>

ManageProduct == ManageProductOn(BOOLEAN)

\* the log of crew.kickoff(): the call, and the agent its tools build
KickoffEvents(o, task, kick) ==
    LET called == Append(o.events,
                         OrchEvent(o, "kickoff", task.product_id, task.crew))
    IN IF kick.tools # "none" /\ kick.in.agent_ok
       THEN Append(called, OrchEvent(o, "agent", task.product_id, task.crew))
       ELSE called

\* the rest of manage_product: crew.kickoff() and the dict returned
ManageProductReturnWith(kicks) ==
    /\ deployment \in {"crew", "api"}
    /\ \E task \in orch.running :
           IF task.crew = NoCrew
           THEN /\ orch' = LeaveManageProduct(orch, task, "error", "crew",
                                              orch.events)
                /\ UNCHANGED <<network_decisions, clock, recent_decision,
                               bids>>
           ELSE \E kick \in kicks :
                    LET out == Kickoff(task.product_id, kick)
                        status == IF kick.raises THEN "error" ELSE "completed"
                        fault == IF kick.raises THEN "kickoff" ELSE out.fault
                    IN /\ network_decisions' =
                              Persist(network_decisions, task.product_id, out,
                                      kick.in)
                       /\ Effects(task.product_id, out, kick.in)
                       /\ orch' =
                              LeaveManageProduct(
                                  orch, task, status, fault,
                                  KickoffEvents(orch, task, kick))
    /\ UNCHANGED <<agent_decisions, response, marks, marked, requests,
                   deployment, gate, analysis, loop, runner>>

ManageProductReturn == ManageProductReturnWith(KickInputs)

\* Faulty variant: the next batch is entered without the pacing delay
AfterGather_NoSleep(o) ==
    EnterBatch([o EXCEPT !.results = @ \o o.batch_results],
               o.i + BatchSize)

\* results.extend(batch_results), up to "await asyncio.sleep(2)"
AfterGather(o) ==
    [o EXCEPT !.pc = "sleep", !.results = @ \o o.batch_results]

\* await asyncio.gather(...) returns: every task of the batch has returned
GatherReturn ==
    /\ deployment = "crew"
    /\ orch.pc = "gather"
    /\ orch.t = Len(Batch(orch))
    /\ orch.running = {}
    /\ orch' = AfterGather(orch)
    /\ UNCHANGED <<store_vars, network_decisions, bids, deployment, gate,
                   analysis, loop, runner>>

\* await asyncio.sleep(2) returns: the next batch, or return results
OrchWake ==
    /\ deployment = "crew"
    /\ orch.pc = "sleep"
    /\ orch' = EnterBatch([orch EXCEPT
                              !.events =
                                  Append(@, OrchEvent(orch, "sleep", Empty,
                                                      NoCrew))],
                          orch.i + BatchSize)
    /\ UNCHANGED <<store_vars, network_decisions, bids, deployment, gate,
                   analysis, loop, runner>>

----------------------------------------------------------------------------
(* The cycle specification: one cycle of either deployment *)

CycleInit ==
    /\ deployment \in {"simple", "crew"}
    /\ CycleIdle
    /\ agent_decisions = <<>>
    /\ clock = 1
    /\ response = Response("none", 0)
    /\ marks = 0
    /\ marked = {}
    /\ requests = <<>>
    /\ recent_decision = [p \in ProductIds |-> NoCache]

CycleNext ==
    \/ RunnerStart
    \/ RunnerStep
    \/ RunnerReturn
    \/ OrchStart
    \/ ManageProduct
    \/ ManageProductReturn
    \/ GatherReturn
    \/ OrchWake

SpecCycle == CycleInit /\ [][CycleNext]_vars

----------------------------------------------------------------------------
(* The batch specification: one orchestrator cycle over several batches *)

\* a catalogue of more than two batches, the last of them short
BatchProducts == [k \in 1..MaxCatalogue |-> ProductName(k)]

\* crews that call no tool: kickoff returns or raises
QuietKicks == { Kick(raises, "none", NoToolInput) : raises \in BOOLEAN }

BatchStart == OrchStartOn(BatchProducts)
BatchManageProduct == ManageProductOn({TRUE})
BatchManageProductReturn == ManageProductReturnWith(QuietKicks)

BatchesInit ==
    /\ deployment = "crew"
    /\ CycleIdle
    /\ agent_decisions = <<>>
    /\ clock = 1
    /\ response = Response("none", 0)
    /\ marks = 0
    /\ marked = {}
    /\ requests = <<>>
    /\ recent_decision = [p \in ProductIds |-> NoCache]

BatchesNext ==
    \/ BatchStart
    \/ BatchManageProduct
    \/ BatchManageProductReturn
    \/ GatherReturn
    \/ OrchWake

SpecBatches == BatchesInit /\ [][BatchesNext]_vars

----------------------------------------------------------------------------
(* The reuse specification: several cycles, and the analysis endpoints *)

\* the catalogue of the repeated cycles and of the endpoints' requests
ReuseProducts == <<ProductP, ProductQ>>

\* runs that fail to build their agent or analyse a reply without
\* opportunities
ReuseInputs ==
    { AgentInput(agent_ok, TRUE, ReplyNoField, <<TRUE, TRUE>>, <<>>) :
        agent_ok \in BOOLEAN }

\* crews that call no tool, or the analysis tool once
ReuseKicks ==
    QuietKicks
    \cup { Kick(FALSE, "analysis",
                AgentInput(TRUE, TRUE, ReplyNoField, <<TRUE, TRUE>>, <<>>)) }

ReuseRunnerStep == RunnerStepWith(ReuseInputs)
ReuseOrchStart == OrchStartOn(ReuseProducts)
ReuseManageProductReturn == ManageProductReturnWith(ReuseKicks)

\* run_agents_for_all_products called again on the module's AgentRunner
RunnerAgain ==
    /\ deployment = "simple"
    /\ runner.pc = "done"
    /\ runner.cycles < MaxCycles
    /\ \E query_ok \in BOOLEAN : runner' = RunnerQuery(runner, query_ok)
    /\ UNCHANGED <<store_vars, network_decisions, bids, deployment, gate,
                   analysis, loop, orch>>

\* run_agent_cycle called again: another AIAgentOrchestrator
RunAgentCycleAgain ==
    /\ deployment = "crew"
    /\ orch.pc = "done"
    /\ orch.cycles < MaxCycles
    /\ \E query_ok \in BOOLEAN :
           orch' = ProductsQuery(NewOrchestrator(orch), ReuseProducts,
                                 query_ok)
    /\ UNCHANGED <<store_vars, network_decisions, bids, deployment, gate,
                   analysis, loop, runner>>

\* the next pass of agent_loop, after its sleep: the same orchestrator
ContinuousPass ==
    /\ deployment = "crew"
    /\ orch.pc = "done"
    /\ orch.cycles < MaxCycles
    /\ \E query_ok \in BOOLEAN :
           orch' = ProductsQuery(orch, ReuseProducts, query_ok)
    /\ UNCHANGED <<store_vars, network_decisions, bids, deployment, gate,
                   analysis, loop, runner>>

\* a request for the analysis of one product reaches the API, whose
\* endpoint will await manage_product of the module's orchestrator
AnalyzeRequest ==
    /\ deployment = "api"
    /\ Cardinality(EventsOf(orch.events, "request")) < MaxCalls
    /\ \E k \in 1..Len(ReuseProducts) :
           orch' = [orch EXCEPT
                       !.calls = Append(@, ReuseProducts[k]),
                       !.events =
                           Append(@, OrchEvent(orch, "request",
                                               ReuseProducts[k], NoCrew))]
    /\ UNCHANGED <<store_vars, network_decisions, bids, deployment, gate,
                   analysis, loop, runner>>

\* the event loop runs the endpoint of a pending request up to the return
\* of its manage_product; it runs one endpoint at a time, in any order
AnalyzeProduct ==
    /\ deployment = "api"
    /\ orch.running = {}
    /\ \E k \in 1..Len(orch.calls), crew_ok \in BOOLEAN :
           orch' = EnterManageProduct(
                       [orch EXCEPT !.calls = RemoveAt(@, k)], "api",
                       orch.calls[k], crew_ok)
    /\ UNCHANGED <<store_vars, network_decisions, bids, deployment, gate,
                   analysis, loop, runner>>

ReuseInit ==
    /\ deployment \in {"simple", "crew", "api"}
    /\ CycleIdle
    /\ agent_decisions = <<>>
    /\ clock = 1
    /\ response = Response("none", 0)
    /\ marks = 0
    /\ marked = {}
    /\ requests = <<>>
    /\ recent_decision = [p \in ProductIds |-> NoCache]

ReuseNext ==
    \/ RunnerStart
    \/ ReuseRunnerStep
    \/ RunnerReturn
    \/ RunnerAgain
    \/ ReuseOrchStart
    \/ ManageProduct
    \/ ReuseManageProductReturn
    \/ GatherReturn
    \/ OrchWake
    \/ RunAgentCycleAgain
    \/ ContinuousPass
    \/ AnalyzeRequest
    \/ AnalyzeProduct

SpecReuse == ReuseInit /\ [][ReuseNext]_vars

----------------------------------------------------------------------------
(* The analysis specification: one call of analyze_product *)

\* the (quantity, reorderPoint) fields of the inventory documents drawn:
\* two high-stock levels, and three critical-low ones, of which one is
\* within 100 units of the lower high-stock level and one lacks both keys
StockLevels ==
    { <<<<300>>, <<50>>>>, <<<<210>>, <<50>>>>, <<<<10>>, <<50>>>>,
      <<<<150>>, <<400>>>>, <<<<>>, <<>>>> }

\* the store of the k-th document: the last document of a full inventory
\* is a second document of the first store
StoreName(k) == <<"S">> \o Decimal(((k - 1) % (MaxStores - 1)) + 1)

\* inventory.find({"productId": product_id}): the documents of the levels f
InventoryOf(f) ==
    [k \in 1..Len(f) |-> Inventory(StoreName(k), f[k][1], f[k][2])]

ScenarioInventory ==
    <<Inventory(StoreName(1), <<300>>, <<50>>),
      Inventory(StoreName(2), <<10>>, <<50>>)>>

ParserReplies == OracleReplies \cup {ReplyMixed}

\* analyze_product(product_data, marketplace_data) of the agent of either
\* path, on product P: the context, the oracle's reply, the parse, and the
\* decision stored
AnalysisCall(inventory_levels, reply) ==
    /\ LET simple == deployment = "simple"
               a == IF simple THEN SimpleAnalyzeProduct(reply)
                    ELSE GeminiAnalyzeProduct(reply)
               decision == DecisionOf(reply.result)
           IN /\ analysis' =
                     [n |-> 1, inventory_levels |-> inventory_levels,
                      pairs |-> IF simple
                                THEN ArbitrageOpportunities(inventory_levels)
                                ELSE <<>>,
                      context |-> IF simple
                                  THEN PrepareAnalysisContext(inventory_levels)
                                  ELSE [arbitrage_opportunities |-> <<>>],
                      reply |-> reply, opportunities |-> a.opportunities,
                      fault |-> a.fault]
              /\ agent_decisions' =
                     IF simple /\ a.stores
                     THEN DecisionsAfterUpdate(agent_decisions, ProductP,
                                               decision, clock, TRUE)
                     ELSE agent_decisions
              /\ network_decisions' =
                     IF ~simple /\ a.stores
                     THEN DecisionsAfterUpdate(network_decisions, ProductP,
                                               decision, clock, TRUE)
                     ELSE network_decisions
              /\ clock' = IF a.stores THEN clock + 1 ELSE clock
              /\ recent_decision' =
                     IF a.stores
                     THEN CacheAfterUpdate(recent_decision, ProductP, decision,
                                           TRUE, TRUE)
                     ELSE recent_decision
    /\ UNCHANGED <<response, marks, marked, requests, bids, deployment, runner,
                   orch, gate, loop>>

\* the analysis of every inventory of up to MaxStores documents, the oracle
\* finding nothing
ContextCases ==
    /\ deployment = "simple"
    /\ analysis.n = 0
    /\ \E n \in 0..MaxStores :
           \E f \in [1..n -> StockLevels] :
               AnalysisCall(InventoryOf(f), ReplyNoField)

\* the analysis of every reply, on one inventory
ParserCases ==
    /\ analysis.n = 0
    /\ \E reply \in ParserReplies : AnalysisCall(ScenarioInventory, reply)

AnalysisInit == GateInit

AnalysisNext == ContextCases \/ ParserCases

SpecAnalysis == AnalysisInit /\ [][AnalysisNext]_vars

----------------------------------------------------------------------------
(* The record specification: update_agent_decision and its failures *)

\* update_agent_decision called by any analysis, the store or the cache
\* failing or not
RecordAttempt ==
    /\ Len(agent_decisions) < MaxDecisions
    /\ \E in \in RecordInputs, store \in StoreOutcomes :
           update_agent_decision(in[1], DecisionOf(in[2]), store[1],
                                 store[2])
    /\ UNCHANGED <<response, marks, marked, requests, cycle_vars>>

\* the cache drops recent_decision:{product_id} when its 300 s have elapsed
Expire ==
    /\ \E product_id \in ProductIds :
           /\ recent_decision[product_id].present
           /\ recent_decision' =
                  [recent_decision EXCEPT ![product_id] = NoCache]
    /\ UNCHANGED <<agent_decisions, clock, response, marks, marked, requests,
                   cycle_vars>>

RecordInit == StoreInit

RecordNext == RecordAttempt \/ Expire

SpecRecord == RecordInit /\ [][RecordNext]_vars

----------------------------------------------------------------------------
(* The continuous specification: agent_loop of run_continuous_agents *)

IntervalSeconds == 60
BackoffSeconds == 30

\* the log and the pass counter of the orchestrator are history: agent_loop
\* starts every pass with them empty, so that the endless loop has finitely
\* many states
ForgetHistory(o) == [o EXCEPT !.events = <<>>, !.cycles = 0]

\* agent_loop after orchestrator = AIAgentOrchestrator(): at the top of
\* "while True"; interval_ok: AGENT_DECISION_INTERVAL is unset or an integer
LoopEntered(interval_ok) ==
    [pc |-> "start", interval_ok |-> interval_ok, after |-> "none",
     delay |-> 0]

\* Faulty variant: an exception of the pass leaves the loop
Waits_ExitsOnError(l, results) ==
    IF l.interval_ok
    THEN [l EXCEPT !.pc = "interval", !.delay = IntervalSeconds]
    ELSE [l EXCEPT !.pc = "stopped", !.delay = 0]

\* the rest of the try block once manage_all_products has returned results:
\* the two counts, int(os.getenv('AGENT_DECISION_INTERVAL', 60)) and
\* sleep(interval); when the conversion raises, the except block and its
\* sleep(30)
Waits(l, results) ==
    IF l.interval_ok
    THEN [l EXCEPT !.pc = "interval", !.delay = IntervalSeconds]
    ELSE [l EXCEPT !.pc = "backoff", !.delay = BackoffSeconds]

\* results = await orchestrator.manage_all_products(): the call
LoopPass ==
    /\ deployment = "crew"
    /\ loop.pc = "start"
    /\ \E query_ok \in BOOLEAN :
           orch' = ProductsQuery(ForgetHistory(orch), ReuseProducts, query_ok)
    /\ loop' = [loop EXCEPT !.pc = "pass"]
    /\ UNCHANGED <<store_vars, network_decisions, bids, deployment, gate,
                   analysis, runner>>

\* manage_all_products has returned: the loop starts its wait
LoopWait ==
    /\ loop.pc = "pass"
    /\ orch.pc = "done"
    /\ loop' = Waits(loop, orch.results)
    /\ UNCHANGED <<store_vars, network_decisions, bids, deployment, gate,
                   analysis, runner, orch>>

\* the sleep has elapsed: back to the top of the loop
LoopWake ==
    /\ loop.pc \in {"interval", "backoff"}
    /\ loop' = [loop EXCEPT !.pc = "start", !.after = loop.pc]
    /\ UNCHANGED <<store_vars, network_decisions, bids, deployment, gate,
                   analysis, runner, orch>>

ContinuousManageProductReturn == ManageProductReturnWith(QuietKicks)

ContinuousInit ==
    /\ deployment = "crew"
    /\ network_decisions = <<>>
    /\ bids = <<>>
    /\ runner = [pc |-> "idle", product_ids |-> <<>>, results |-> <<>>,
                 faults |-> <<>>, persisted |-> <<>>, cycles |-> 0,
                 events |-> <<>>]
    /\ orch = NewOrchestrator(
                  [pc |-> "idle", product_ids |-> <<>>, i |-> 0, t |-> 0,
                   batch_results |-> <<>>, results |-> <<>>, faults |-> <<>>,
                   crews |-> NoCrews, running |-> {}, calls |-> <<>>,
                   cycles |-> 0, epoch |-> 0, events |-> <<>>])
    /\ gate = [n |-> 0]
    /\ analysis = [n |-> 0]
    /\ \E interval_ok \in BOOLEAN : loop = LoopEntered(interval_ok)
    /\ agent_decisions = <<>>
    /\ clock = 1
    /\ response = Response("none", 0)
    /\ marks = 0
    /\ marked = {}
    /\ requests = <<>>
    /\ recent_decision = [p \in ProductIds |-> NoCache]

ContinuousNext ==
    \/ LoopPass
    \/ ManageProduct
    \/ ContinuousManageProductReturn
    \/ GatherReturn
    \/ OrchWake
    \/ LoopWait
    \/ LoopWake

\* every outbound call returns and every sleep elapses: a step that is
\* possible is eventually taken
SpecContinuous ==
    ContinuousInit /\ [][ContinuousNext]_vars /\ WF_vars(ContinuousNext)

----------------------------------------------------------------------------
(* The identifier specification: the decision store API on product and     *)
(* store ids that contain '-' or are empty                                  *)

ProductDash == <<"P", "-", "A">>
OppDashSource == RawOpp("arbitrage", 80, PyStr(<<"A", "-", "B">>), PyStr(Empty))
OppDashTarget == RawOpp("arbitrage", 80, PyStr(<<"A">>), PyStr(<<"B", "-">>))
OppEmptySource == RawOpp("restock", 55, PyStr(Empty), PyStr(<<"B">>))
OppDashInSource == RawOpp("restock", 55, PyStr(<<"A", "-">>), PyStr(<<"B">>))

\* two opportunities of one Decision whose store ids join to the same text,
\* and Decisions of different products whose ids join to the same text
IdInputs ==
    { <<ProductP, Result(TRUE, <<OppDashSource, OppDashTarget>>)>>,
      <<ProductP, Result(TRUE, <<OppDashInSource>>)>>,
      <<ProductDash, Result(TRUE, <<OppEmptySource>>)>>,
      <<Empty, Result(TRUE, <<OppDashSource>>)>> }

IdRecord == RecordWith(IdInputs)

IdsInit ==
    /\ deployment = "simple"
    /\ CycleIdle
    /\ agent_decisions = <<>>
    /\ clock = 1
    /\ response = Response("none", 0)
    /\ marks = 0
    /\ marked = {}
    /\ requests = <<>>
    /\ recent_decision =
           [p \in ProductIds \cup {ProductDash, Empty} |-> NoCache]

IdsNext == IdRecord \/ ListOpportunities \/ MarkProcessed

SpecIds == IdsInit /\ [][IdsNext]_vars

----------------------------------------------------------------------------
(* The concurrent specification: process_opportunity calls in flight *)

\* One call of process_opportunity: pc is "received" when the decision value
\* was accepted and the update is not yet applied, "raised" when the 400 was
\* raised, "updated" when the store has applied the update and "answered"
\* when the handler has returned
Request(opportunity_id, decision, pc, status) ==
    [opportunity_id |-> opportunity_id, decision |-> decision, pc |-> pc,
     status |-> status, updated_records |-> 0]

\* the identifiers that a listing of the stored Decisions can have shown
StoredIdentifiers(decs) ==
    UNION { { OppId(decs[k],
                    ResultOpportunities(decs[k].decision.analysis_result)[i],
                    i - 1) :
                  i \in 1..Len(ResultOpportunities(
                                   decs[k].decision.analysis_result)) } :
            k \in 1..Len(decs) }

\* the endpoint is entered and the decision value is tested
ProcessReceive(opportunity_id, decision) ==
    /\ marks < MaxMarks
    /\ marks' = marks + 1
    /\ requests' =
           Append(requests,
                  IF ValidDecision(decision)
                  THEN Request(opportunity_id, decision, "received", 200)
                  ELSE Request(opportunity_id, decision, "raised", 400))
    /\ UNCHANGED <<agent_decisions, clock, response, marked, recent_decision>>
    /\ UNCHANGED cycle_vars

\* the store applies the update of call n: update_one and update_many are
\* the only store operations of the handler
ProcessApply(n) ==
    /\ requests[n].pc = "received"
    /\ LET entry == ProcessedEntry(requests[n].opportunity_id,
                                   requests[n].decision, NoId, NoId,
                                   ProcessedAt)
           after == ProcessUpdate(agent_decisions,
                                  requests[n].opportunity_id, entry)
           count == ModifiedCount(agent_decisions, after)
       IN /\ agent_decisions' = after
          /\ requests' = [requests EXCEPT ![n].pc = "updated",
                                          ![n].updated_records = count]
          /\ marked' = IF count > 0
                       THEN marked \cup {requests[n].opportunity_id}
                       ELSE marked
    /\ UNCHANGED <<clock, response, marks, recent_decision>>
    /\ UNCHANGED cycle_vars

\* the handler of call n returns its result, or the 400
ProcessAnswer(n) ==
    /\ requests[n].pc \in {"updated", "raised"}
    /\ requests' = [requests EXCEPT ![n].pc = "answered"]
    /\ response' = IF requests[n].status = 200
                   THEN [Response("process", 200) EXCEPT
                             !.opportunity_id = requests[n].opportunity_id,
                             !.decision = requests[n].decision,
                             !.updated_records = requests[n].updated_records]
                   ELSE Response("process", 400)
    /\ UNCHANGED <<agent_decisions, clock, marks, marked, recent_decision>>
    /\ UNCHANGED cycle_vars

\* The requests of the concurrent specification: identifiers of stored
\* opportunities, which all resolve to their Decision
ConcurrentDecisions == {"approved", "rejected", NoDecision}

ConcurrentReceive ==
    \E opportunity_id \in StoredIdentifiers(agent_decisions),
       decision \in ConcurrentDecisions :
        ProcessReceive(opportunity_id, decision)

ConcurrentApply == \E n \in 1..Len(requests) : ProcessApply(n)

ConcurrentAnswer == \E n \in 1..Len(requests) : ProcessAnswer(n)

ConcurrentNext ==
    Record \/ ConcurrentReceive \/ ConcurrentApply \/ ConcurrentAnswer

SpecConcurrent == StoreInit /\ [][ConcurrentNext]_vars

----------------------------------------------------------------------------
(* The review specification: a single-agent cycle and the review of what   *)
(* it found through the decision store API                                 *)

\* a limit that lets one listing show every opportunity of the cycle
WideLimit == 2 * MaxProducts

\* the runs of the review specification: replies whose opportunities reach
\* the gate, a backend that accepts or refuses the bid, a store that takes
\* the Decision or raises
ReviewInputs ==
    { in \in AgentInputs :
          /\ in.agent_ok /\ in.found
          /\ in.reply \in {ReplyTrade, ReplyNoSource}
          /\ in.insert_ok = in.cache_ok
          /\ \A k \in DOMAIN in.http : in.http[k] # NoResponse }

ReviewStep == RunnerStepWith(ReviewInputs)

ReviewList ==
    /\ get_recent_opportunities(WideLimit, PyNone)
    /\ UNCHANGED cycle_vars

ReviewMark ==
    /\ \E opportunity_id \in ListedIds, decision \in {"approved", "rejected"} :
           process_opportunity(opportunity_id, decision, NoId, NoId)
    /\ UNCHANGED cycle_vars

ReviewNext ==
    RunnerStart \/ ReviewStep \/ RunnerReturn \/ ReviewList \/ ReviewMark

SpecReview == StoreInit /\ [][ReviewNext]_vars

----------------------------------------------------------------------------
(* Vocabulary of the claims about the decision store *)

IdsOf(entries) == { entries[k].id : k \in 1..Len(entries) }

\* every listing the API can return is the same for the two collections
SameListings(before, after) ==
    \/ before = after
    \/ \A limit \in Limits, storeId \in StoreFilters :
           RecentOpportunities(before, limit, storeId)
               = RecentOpportunities(after, limit, storeId)

\* the audit entries of the whole collection that reference an identifier
AuditEntries(decs, id) ==
    { <<k, j>> \in (1..Len(decs)) \X (1..(MaxMarks + 1)) :
          /\ j <= Len(decs[k].processed_opportunities)
          /\ decs[k].processed_opportunities[j].opportunity_id = id }

AuditDecisions(decs, id) ==
    { decs[e[1]].processed_opportunities[e[2]].decision :
          e \in AuditEntries(decs, id) }

Positions(doc) ==
    0..(Len(ResultOpportunities(doc.decision.analysis_result)) - 1)

\* no audit entry of the Decision references the opportunity at position i
IsUnprocessed(doc, i) ==
    \A j \in 1..Len(doc.processed_opportunities) :
        doc.processed_opportunities[j].opportunity_id
            # OppId(doc, doc.decision.analysis_result.opportunities[i + 1], i)

\* the opportunity names the store as its source or as its target
Touches(opp, store) ==
    opp.source_store = PyStr(store) \/ opp.target_store = PyStr(store)

\* the (Decision, position) pairs, among the Decisions numbered in K, of the
\* unprocessed opportunities that a listing filtered by storeId is to show
Candidates(decs, K, storeId) ==
    UNION { { <<k, i>> : i \in { i \in Positions(decs[k]) :
                  /\ IsUnprocessed(decs[k], i)
                  /\ Truthy(storeId) =>
                         Touches(decs[k].decision.analysis_result
                                     .opportunities[i + 1], storeId.s) } } :
            k \in K }

\* the Decisions with an opportunities field that fewer than n such Decisions
\* are newer than
MostRecent(decs, n) ==
    { k \in 1..Len(decs) :
          /\ HasOpportunitiesField(decs[k])
          /\ Cardinality({ j \in 1..Len(decs) :
                 /\ HasOpportunitiesField(decs[j])
                 /\ decs[j].timestamp > decs[k].timestamp }) < n }

AllDecisions(decs) == 1..Len(decs)

IsListing(r) == r.op = "opportunities" /\ r.status = 200
IsProcessed(r) == r.op = "process" /\ r.status = 200

\* C1: once the marking of a listed identifier has succeeded, no listing
\* returns it again; and marking it a second time with the same decision
\* value leaves two audit entries and every listing as it was
C1_Excluded ==
    \A limit \in Limits, storeId \in StoreFilters :
        marked \cap IdsOf(RecentOpportunities(agent_decisions, limit, storeId))
            = {}

C1_Step ==
      ( /\ IsProcessed(response')
         /\ response'.opportunity_id \in marked
         /\ Cardinality(AuditEntries(agent_decisions,
                                     response'.opportunity_id)) = 1
         /\ AuditDecisions(agent_decisions, response'.opportunity_id)
                = {response'.decision} )
       => /\ Cardinality(AuditEntries(agent_decisions',
                                      response'.opportunity_id)) = 2
          /\ AuditDecisions(agent_decisions', response'.opportunity_id)
                 = {response'.decision}
          /\ SameListings(agent_decisions, agent_decisions')

C1_ProcessedStaysExcluded == []C1_Excluded /\ [][C1_Step]_vars

\* a listed identifier has been marked twice with the same decision value
C1_Witness ==
    /\ IsProcessed(response)
    /\ response.opportunity_id \in marked
    /\ Cardinality(AuditEntries(agent_decisions, response.opportunity_id)) = 2
    /\ AuditDecisions(agent_decisions, response.opportunity_id)
           = {response.decision}

\* C2: two listings in a row give the entries that agree on decision id,
\* product id, source store, target store and position the same identifier
SameComponents(e1, e2) ==
    /\ e1.decision_id = e2.decision_id
    /\ e1.product_id = e2.product_id
    /\ e1.opportunity.source_store = e2.opportunity.source_store
    /\ e1.opportunity.target_store = e2.opportunity.target_store
    /\ e1.index = e2.index

C2_Step ==
    (IsListing(response) /\ IsListing(response')) =>
        \A k \in 1..Len(response.opportunities),
           j \in 1..Len(response'.opportunities) :
            SameComponents(response.opportunities[k],
                           response'.opportunities[j])
                => response.opportunities[k].id = response'.opportunities[j].id

C2_StableIdentifiers == [][C2_Step]_vars

\* a filtered listing whose first entry is not the first of its Decision
C2_Witness ==
    /\ IsListing(response)
    /\ Truthy(response.storeId)
    /\ Len(response.opportunities) > 0
    /\ response.opportunities[1].index > 0

\* the bids the trading backend answered
AnsweredBids ==
    { bids[k] : k \in { j \in 1..Len(bids) : bids[j].status_code # NoResponse } }

\* C3: whenever the execution gate submits a bid to the trading backend, the
\* bid's source store and target store are both non-empty and differ
C3_Claimed ==
    \A b \in AnsweredBids :
        /\ Truthy(b.sourceStoreId)
        /\ Truthy(b.targetStoreId)
        /\ b.sourceStoreId # b.targetStoreId

\* C4: a request whose decision value is not exactly approved or rejected is
\* answered 400 and changes no Decision and no listing
InvalidDecisionValues == DecisionValues \ {"approved", "rejected"}

C4_Step ==
    \A id \in ListedIds \cup marked \cup ForeignIds,
       decision \in InvalidDecisionValues :
        process_opportunity(id, decision, NoId, NoId) =>
            /\ response'.status = 400
            /\ agent_decisions' = agent_decisions
            /\ SameListings(agent_decisions, agent_decisions')

C4_InvalidDecisionRejected == [][C4_Step]_vars

\* a request was refused while the store held unprocessed opportunities
C4_Witness ==
    /\ response.op = "process"
    /\ response.status = 400
    /\ Candidates(agent_decisions, AllDecisions(agent_decisions), PyNone) # {}

C6_Claimed ==
    IsListing(response) =>
        /\ Len(response.opportunities) <= response.limit
        /\ Cardinality(Candidates(agent_decisions,
                                  AllDecisions(agent_decisions),
                                  response.storeId)) >= response.limit
               => Len(response.opportunities) = response.limit

\* C6 as amended: the same, counting the opportunities of the 2 x limit most
\* recent Decisions that have an opportunities field
C6_FilterThenTruncate ==
    IsListing(response) =>
        /\ Len(response.opportunities) <= response.limit
        /\ Cardinality(Candidates(agent_decisions,
                                  MostRecent(agent_decisions,
                                             2 * response.limit),
                                  response.storeId)) >= response.limit
               => Len(response.opportunities) = response.limit

\* a filtered listing is full although the filter dropped the first
\* opportunity of the Decision, and more Decisions are stored than fetched
C6_Witness ==
    /\ IsListing(response)
    /\ Truthy(response.storeId)
    /\ Len(response.opportunities) = response.limit
    /\ response.opportunities[1].index > 0
    /\ Cardinality(MostRecent(agent_decisions, 2 * response.limit))
           < Cardinality(MostRecent(agent_decisions, MaxDecisions + 1))

\* C7: a step keeps every stored Decision, with its product id, timestamp
\* and opportunities, and only appends to its processed-opportunity list
C7_Step ==
    /\ Len(agent_decisions') >= Len(agent_decisions)
    /\ \A k \in 1..Len(agent_decisions) :
           /\ agent_decisions'[k].id = agent_decisions[k].id
           /\ agent_decisions'[k].productId = agent_decisions[k].productId
           /\ agent_decisions'[k].timestamp = agent_decisions[k].timestamp
           /\ agent_decisions'[k].decision = agent_decisions[k].decision
           /\ Len(agent_decisions'[k].processed_opportunities)
                  >= Len(agent_decisions[k].processed_opportunities)
           /\ SubSeq(agent_decisions'[k].processed_opportunities, 1,
                     Len(agent_decisions[k].processed_opportunities))
                  = agent_decisions[k].processed_opportunities

C7_DecisionsAppendOnly == [][C7_Step]_vars

\* a Decision carries two audit entries while a newer Decision is stored
C7_Witness ==
    \E k \in 1..Len(agent_decisions) :
        /\ Len(agent_decisions[k].processed_opportunities) >= 2
        /\ k < Len(agent_decisions)

\* C8: a request whose identifier starts with a valid decision id appends
\* its audit entry to the Decision of that id only, and reports at most one
\* processed Decision
WellFormed(id) ==
    /\ Contains(id, "-")
    /\ IsObjectId(SplitFirst(id, "-"))

C8_Step ==
    (IsProcessed(response') /\ WellFormed(response'.opportunity_id)) =>
        /\ Len(agent_decisions') = Len(agent_decisions)
        /\ response'.updated_records <= 1
        /\ \A k \in 1..Len(agent_decisions) :
               IF agent_decisions[k].id
                      = Lower(SplitFirst(response'.opportunity_id, "-"))
               THEN /\ response'.updated_records = 1
                    /\ agent_decisions'[k].processed_opportunities
                           = Append(agent_decisions[k].processed_opportunities,
                                    ProcessedEntry(response'.opportunity_id,
                                                   response'.decision, NoId,
                                                   NoId, ProcessedAt))
               ELSE agent_decisions'[k] = agent_decisions[k]

Appended(before, after, r) ==
    { k \in 1..Len(before) :
          after[k].processed_opportunities
              = Append(before[k].processed_opportunities,
                       ProcessedEntry(r.opportunity_id, r.decision, NoId,
                                      NoId, ProcessedAt)) }

Unchanged(before, after) == { k \in 1..Len(before) : after[k] = before[k] }

\* the Decisions that expose at least one unprocessed opportunity
Exposing(decs) ==
    { k \in 1..Len(decs) :
          /\ HasOpportunitiesField(decs[k])
          /\ \E i \in Positions(decs[k]) : IsUnprocessed(decs[k], i) }

WithOpportunitiesField(decs) ==
    { k \in 1..Len(decs) : HasOpportunitiesField(decs[k]) }

\* the fallback appends the entry to exactly the Decisions of T, leaves the
\* others as they were and reports the size of T
FallbackUpdates(T) ==
    /\ Len(agent_decisions') = Len(agent_decisions)
    /\ Appended(agent_decisions, agent_decisions', response') = T
    /\ Unchanged(agent_decisions, agent_decisions')
           = (1..Len(agent_decisions)) \ T
    /\ response'.updated_records = Cardinality(T)

\* C9 as claimed: a request whose identifier does not resolve appends its
\* audit entry to exactly the Decisions that expose an unprocessed
\* opportunity, and reports their number
C9_ClaimedStep ==
    (IsProcessed(response') /\ ~WellFormed(response'.opportunity_id)) =>
        FallbackUpdates(Exposing(agent_decisions))

C9_Claimed == [][C9_ClaimedStep]_vars

\* C9 as amended: it appends the entry to exactly the Decisions that have an
\* opportunities field, and reports their number
C9_Step ==
    (IsProcessed(response') /\ ~WellFormed(response'.opportunity_id)) =>
        FallbackUpdates(WithOpportunitiesField(agent_decisions))

C9_FallbackUpdatesAll == [][C9_Step]_vars

\* the fallback was taken with a Decision that has its opportunities all
\* processed and a Decision without an opportunities field in the store
C9_Witness ==
    /\ IsProcessed(response)
    /\ ~WellFormed(response.opportunity_id)
    /\ response.updated_records >= 2
    /\ \E k \in 1..Len(agent_decisions) :
           ~HasOpportunitiesField(agent_decisions[k])
    /\ \E k \in 1..Len(agent_decisions) :
           /\ HasOpportunitiesField(agent_decisions[k])
           /\ Len(agent_decisions[k].processed_opportunities) >= 2
           /\ \A i \in Positions(agent_decisions[k]) :
                  \E j \in 1..(Len(agent_decisions[k].processed_opportunities) - 1) :
                      agent_decisions[k].processed_opportunities[j].opportunity_id
                          = OppId(agent_decisions[k],
                                  agent_decisions[k].decision.analysis_result
                                      .opportunities[i + 1], i)

----------------------------------------------------------------------------
(* Claims about the cycle schedulers *)

\* a cycle that got its product list has returned
RunnerReturned == runner.pc = "done" /\ runner.product_ids # <<>>
OrchReturned == orch.pc = "done" /\ orch.product_ids # <<>>

\* the entry at position k is product k's, an error result exactly when the
\* analysis of product k raised or failed
IsolatedEntry(product_id, fault, entry) ==
    IF fault # "none" THEN entry.error
    ELSE ~entry.error /\ entry.product_id = PyStr(product_id)

Isolated(c) ==
    /\ Len(c.results) = Len(c.product_ids)
    /\ \A k \in 1..Len(c.product_ids) :
           IsolatedEntry(c.product_ids[k], c.faults[k], c.results[k])

\* C10: when the analysis of one product raises or fails during a cycle, the
\* cycle still returns one entry per product, the failing product's entry is
\* an error result and the other entries are those products' own outcomes,
\* in the orchestrator cycle and in the single-agent cycle
C10_Claimed ==
    /\ RunnerReturned => Isolated(runner)
    /\ OrchReturned => Isolated(orch)

----------------------------------------------------------------------------
(* Claims about the batches of manage_all_products *)

\* the outcomes are those of the products from position first + 1 on, in
\* the products' order
InOrder(o, outcomes, first) ==
    /\ first + Len(outcomes) <= Len(o.product_ids)
    /\ \A k \in 1..Len(outcomes) :
           outcomes[k].product_id = PyStr(o.product_ids[first + k])

\* C11: manage_all_products takes the product ids in consecutive batches
\* of batch_size and returns exactly one outcome per product id, the i-th
\* outcome being the i-th product id's: every batch starts at a multiple of
\* batch_size and holds at most batch_size products, the outcomes gathered
\* for it are those of its products in order, and the results are at every
\* stage the outcomes of the products before the batch, complete at return
C11_OneOutcomePerProduct ==
    orch.product_ids # <<>> =>
        /\ InOrder(orch, orch.results, 0)
        /\ orch.pc = "gather" =>
               /\ orch.i % BatchSize = 0
               /\ Len(Batch(orch)) <= BatchSize
               /\ Len(orch.results) = orch.i
               /\ Len(orch.batch_results) = orch.t
               /\ InOrder(orch, orch.batch_results, orch.i)
        /\ orch.pc = "sleep" =>
               Len(orch.results) = Min(orch.i + BatchSize,
                                       Len(orch.product_ids))
        /\ orch.pc = "done" => Len(orch.results) = Len(orch.product_ids)

\* a cycle of three batches has returned, with failed and completed
\* analyses next to each other in its second batch
C11_Witness ==
    /\ OrchReturned
    /\ Len(orch.results) > 2 * BatchSize
    /\ orch.results[BatchSize + 1].error
    /\ ~orch.results[BatchSize + 2].error

\* the steps of the orchestrator's current manage_all_products, in order
CycleLog(o) ==
    SelectSeq(o.events,
              LAMBDA ev : ev.cycle = o.cycles /\ ev.orchestrator = o.epoch)

PositionOf(product_ids, product_id) ==
    CHOOSE k \in 1..Len(product_ids) : product_ids[k] = product_id

\* the steps of kind e among the first j - 1 steps of a log
Before(log, j, e) == { k \in 1..(j - 1) : log[k].e = e }

\* the analysis started at step j of the log belongs to a batch with
\* earlier batches before it: each product of those has finished before
\* step j, and one pacing delay per earlier batch has elapsed before it
StartsAfterEarlierBatches(o, log, j) ==
    LET earlier == (PositionOf(o.product_ids, log[j].product_id) - 1)
                       \div BatchSize
    IN /\ \A m \in 1..(earlier * BatchSize) :
              \E k \in Before(log, j, "finish") :
                  log[k].product_id = o.product_ids[m]
       /\ Cardinality(Before(log, j, "sleep")) = earlier

\* C12: batches are strictly sequential: no analysis of batch N+1 starts
\* before every analysis of batch N has completed and the pacing delay
\* after batch N has elapsed
C12_BatchesSequential ==
    LET log == CycleLog(orch)
    IN \A j \in 1..Len(log) :
           log[j].e = "start" => StartsAfterEarlierBatches(orch, log, j)

\* an analysis of the third batch has started
C12_Witness ==
    \E task \in orch.running :
        /\ task.src = "batch"
        /\ PositionOf(orch.product_ids, task.product_id) > 2 * BatchSize

\* an analysis started while one started before it had not finished
Overlapped(log) ==
    \E j \in 1..Len(log) :
        \E k \in (j + 1)..Len(log) :
            /\ log[j].e = "start"
            /\ log[k].e = "start"
            /\ \A l \in (j + 1)..(k - 1) :
                   ~(log[l].e = "finish"
                       /\ log[l].product_id = log[j].product_id)

\* C13: within one batch the analyses run concurrently: when the gather of
\* a batch of two or more products has returned, an analysis of the batch
\* had started before another analysis of the batch had completed
C13_Claimed ==
    (orch.pc = "sleep" /\ Len(Batch(orch)) >= 2) =>
        Overlapped(CycleLog(orch))

\* C13, what the code does: at most one analysis is inside manage_product
\* at any time, and none starts before the one started before it returned
C13_AnalysesNeverOverlap ==
    /\ Cardinality(orch.running) <= 1
    /\ ~Overlapped(CycleLog(orch))

----------------------------------------------------------------------------
(* Claims about the reuse of crews and agents *)

SameCrewOwner(a, b) ==
    a.product_id = b.product_id /\ a.orchestrator = b.orchestrator

\* C14: for any interleaving of manage_product calls on one orchestrator,
\* the crew of a product id is built at most once when building succeeds,
\* and every call for that id uses that crew: a kickoff is the kickoff of
\* the one crew built before it for its product on its orchestrator, which
\* is the crew the cache holds
C14_CrewBuiltOnce ==
    LET log == orch.events
    IN /\ \A j \in EventsOf(log, "crew") :
              \A k \in EventsOf(log, "crew") :
                  SameCrewOwner(log[j], log[k]) => j = k
       /\ \A k \in EventsOf(log, "kickoff") :
              \E j \in EventsOf(log, "crew") :
                  /\ j < k
                  /\ SameCrewOwner(log[j], log[k])
                  /\ log[j].inst = log[k].inst
       /\ \A p \in DOMAIN orch.crews :
              \E j \in EventsOf(log, "crew") :
                  /\ log[j].product_id = p
                  /\ log[j].orchestrator = orch.epoch
                  /\ log[j].inst = orch.crews[p]

\* two requests for a product were pending before its crew was built, and
\* the crew has been kicked off for both
C14_Witness ==
    LET log == orch.events
    IN \E c \in EventsOf(log, "crew") :
           /\ Cardinality({ j \in Before(log, c, "request") :
                               log[j].product_id = log[c].product_id }) >= 2
           /\ Cardinality({ k \in EventsOf(log, "kickoff") :
                               log[k].inst = log[c].inst }) >= 2

\* the product was analysed in a cycle before the given one
AnalysedBefore(log, product_id, cycle) ==
    \E j \in 1..Len(log) :
        /\ log[j].e \in {"agent", "kickoff"}
        /\ log[j].product_id = product_id
        /\ log[j].cycle < cycle

NotBuiltAgain(log) ==
    \A k \in EventsOf(log, "agent") \cup EventsOf(log, "crew") :
        ~AnalysedBefore(log, log[k].product_id, log[k].cycle)

\* C15: one agent per product is reused across cycles: the agent or crew
\* of a product analysed in an earlier cycle is not built again, in
\* repeated run_agent_cycle calls, continuous passes and single-agent runs
C15_Claimed == NotBuiltAgain(runner.events) /\ NotBuiltAgain(orch.events)

----------------------------------------------------------------------------
(* Claims about the execution gate *)

\* C16: the gate classifies by type and confidence. Orchestrator path:
\* arbitrage above 0.7 attempts a bid, restock above 0.6 is logged.
\* Single-agent path: arbitrage above 0.6 attempts a bid, restock above 0.5
\* is logged. Everything else, whatever its type and confidence, is
\* skipped. A bid attempt is a success exactly when the backend answers
\* 201 and is failed on every other answer
C16_GateClassification ==
    gate.n > 0 =>
        LET opp == gate.opportunity
            status == gate.result.status
            arbitrage == IF deployment = "simple" THEN 60 ELSE 70
            restock == IF deployment = "simple" THEN 50 ELSE 60
        IN IF opp.type = "arbitrage" /\ opp.confidence > arbitrage
           THEN /\ status \in {"success", "failed", "error"}
                /\ status = "success" <=> gate.http = 201
                /\ gate.http \notin {201, NoResponse} => status = "failed"
           ELSE IF opp.type = "restock" /\ opp.confidence > restock
           THEN status = "logged"
           ELSE status = "skipped"

\* the single-agent gate has logged a restock of confidence 0.55
C16_Witness ==
    /\ deployment = "simple"
    /\ gate.n > 0
    /\ gate.opportunity.type = "restock"
    /\ gate.opportunity.confidence = 55
    /\ gate.result.status = "logged"

C19_Step ==
    (gate'.n = gate.n + 1 /\ gate'.result.status \in {"logged", "skipped"})
        => bids' = bids

\* C19: an evaluation whose outcome is logged or skipped makes no call to
\* the trading backend: it leaves the submitted bids unchanged
C19_NoBackendCall == [][C19_Step]_vars

\* a restock was logged after a bid had been submitted
C19_Witness ==
    /\ gate.n = 2
    /\ gate.result.status = "logged"
    /\ Len(bids) = 1

----------------------------------------------------------------------------
(* Claims about the single-agent cycle *)

\* the gate would skip the opportunity: low confidence or unrecognized type
GateSkips(opp) ==
    SimpleExecuteOpportunity(ProductP, opp, 201).status = "skipped"

\* every opportunity of the result has its outcome, at its position
OneOutcomeEach(result) ==
    /\ result.actions_executed = result.opportunities_found
    /\ \A j \in 1..Len(result.opportunities) :
           /\ j <= Len(result.executed_actions)
           /\ GateSkips(result.opportunities[j]) =>
                  /\ result.executed_actions[j].status = "skipped"
                  /\ result.executed_actions[j].reason # ""

\* C17: in a single-agent cycle every opportunity the analysis yielded has
\* exactly one gate outcome recorded in the product's result, the
\* low-confidence and unrecognized-type ones as skipped with a reason
C17_Claimed ==
    \A k \in 1..Len(runner.results) :
        ~runner.results[k].error => OneOutcomeEach(runner.results[k])

\* the bids POSTed for a product, in order
ProductBids(product_id) ==
    SelectSeq(bids, LAMBDA b : b.productId = product_id)

\* the outcomes of a result that attempted a bid, in order
Attempts(result) ==
    SelectSeq(result.executed_actions,
              LAMBDA a : a.status \in {"success", "failed", "error"})

HighConfidence(opps) ==
    { j \in 1..Len(opps) : opps[j].confidence > ExecuteThreshold }

\* one POST per attempted opportunity, a refused one recorded as failed,
\* and every opportunity above the execution threshold evaluated
BidsSentOnce(product_id, result) ==
    LET sent == ProductBids(product_id)
        tried == Attempts(result)
    IN /\ Len(sent) = Len(tried)
       /\ Len(sent) <= Len(result.opportunities)
       /\ \A j \in 1..Len(sent) :
              sent[j].status_code \notin {201, NoResponse}
                  <=> tried[j].status = "failed"
       /\ Len(result.executed_actions) =
              Cardinality(HighConfidence(result.opportunities))

\* C18: a failed bid is not retried within the cycle: a run sends at most
\* one POST per opportunity, records a non-201 response as failed, and the
\* remaining opportunities of the product and the remaining products of
\* the cycle are still processed
C18_FailedBidNotRetried ==
    /\ \A k \in 1..Len(runner.results) :
           ~runner.results[k].error =>
               BidsSentOnce(runner.product_ids[k], runner.results[k])
    /\ RunnerReturned => Len(runner.results) = Len(runner.product_ids)

\* a cycle has returned in which a bid was refused, the next opportunity
\* of that product was evaluated and the next product executed an action
C18_Witness ==
    /\ RunnerReturned
    /\ \E k \in 1..(Len(runner.results) - 1) :
           /\ ~runner.results[k].error
           /\ runner.results[k].actions_executed >= 2
           /\ runner.results[k].executed_actions[1].status = "failed"
           /\ ~runner.results[k + 1].error
           /\ runner.results[k + 1].actions_executed >= 1

\* C20: when the oracle's reply for a product is not JSON, the product's
\* result records zero opportunities together with a per-product error,
\* and the cycle returns an entry for every product
C20_Claimed ==
    RunnerReturned =>
        /\ Len(runner.results) = Len(runner.product_ids)
        /\ \A k \in 1..Len(runner.results) :
               runner.faults[k] = "parse" =>
                   /\ runner.results[k].opportunities_found = 0
                   /\ runner.results[k].error

----------------------------------------------------------------------------
(* Claims about analyze_product *)

\* the MarketOpportunity of an entry, on the path that serves
Coerced(opp) ==
    IF deployment = "simple" THEN SimpleOpportunity(opp)
    ELSE GeminiOpportunity(opp)

\* the entries of a payload whose numeric coercion succeeds, in order
CoercibleEntries(raw) ==
    SelectSeq(raw, LAMBDA opp : opp.confidence # NotANumber)

\* C21: when one entry of an otherwise valid oracle payload fails numeric
\* coercion, only that entry is dropped: the other entries of the payload
\* are still returned as opportunity records
C21_Claimed ==
    (analysis.n > 0 /\ analysis.reply.kind = "json") =>
        LET kept == CoercibleEntries(ResultOpportunities(analysis.reply.result))
        IN analysis.opportunities = [k \in 1..Len(kept) |-> Coerced(kept[k])]

----------------------------------------------------------------------------
(* Claims about the failures of a single-agent cycle *)

\* C22: when persisting a Decision fails because the store or the cache is
\* unreachable, the failure is not fatal to the cycle, that product's entry
\* in the cycle output is an error result, and the remaining products are
\* still analysed
C22_Claimed ==
    /\ \A k \in 1..Len(runner.persisted) :
           runner.persisted[k] \in {"insert", "cache"} =>
               runner.results[k].error
    /\ (RunnerReturned /\ runner.persisted # <<>>) =>
           Len(runner.results) = Len(runner.product_ids)

----------------------------------------------------------------------------
(* Claims about the recent-decision cache *)

\* the Decisions persisted for a product
DecisionsFor(product_id) ==
    { k \in 1..Len(agent_decisions) :
        agent_decisions[k].productId = product_id }

\* the cache entry of the product is the decision dict of the Decision
\* persisted last for it
Mirrors(product_id) ==
    \E k \in DecisionsFor(product_id) :
        /\ \A j \in DecisionsFor(product_id) :
               agent_decisions[j].timestamp <= agent_decisions[k].timestamp
        /\ recent_decision[product_id].decision = agent_decisions[k].decision

\* the steps of kind e logged for the product in the current cycle
RunnerSteps(e, product_id) ==
    { k \in EventsOf(runner.events, e) :
        /\ runner.events[k].product_id = product_id
        /\ runner.events[k].cycle = runner.cycles }

C23_Claimed ==
    \A product_id \in ProductIds :
        recent_decision[product_id].present => Mirrors(product_id)

----------------------------------------------------------------------------
(* Claims about continuous mode *)

PassRunning == loop.pc = "pass"
Waiting == loop.pc \in {"interval", "backoff"}

\* C24: continuous mode repeats the cycle indefinitely. Every outbound call
\* returning, every pass ends in a wait, the regular interval after a pass
\* that completed and the backoff delay after one that raised; after either
\* wait a next pass is started; and the loop is never left
C24_ContinuousRepeats ==
    /\ PassRunning ~> Waiting
    /\ (loop.pc = "interval") ~> PassRunning
    /\ (loop.pc = "backoff") ~> PassRunning
    /\ [](loop.pc \in {"start", "pass", "interval", "backoff"})
    /\ []<>PassRunning

\* a pass is running that was started after the backoff delay, both
\* products of the earlier pass having been analysed
C24_Witness ==
    /\ PassRunning
    /\ loop.after = "backoff"
    /\ orch.running # {}
    /\ DOMAIN orch.crews = {ProductP, ProductQ}

\* C25: when the product-listing query fails during a continuous-mode pass,
\* the failure surfaces as a cycle-level error and the loop waits the fixed
\* backoff delay (30 s), not the regular cycle interval, before the next pass
C25_Claimed ==
    (Waiting /\ orch.results = <<OrchFailure>>) =>
        (loop.pc = "backoff" /\ loop.delay = BackoffSeconds)

----------------------------------------------------------------------------
(* Claims about the candidate arbitrage pairs of the analysis context *)

\* the (source, target) positions of the inventory that the definition of a
\* candidate pair admits
CandidatePositions(inventory_levels) ==
    { c \in (1..Len(inventory_levels)) \X (1..Len(inventory_levels)) :
        LET source == inventory_levels[c[1]]
            target == inventory_levels[c[2]]
        IN /\ Quantity(source) > 200
           /\ 2 * Quantity(target) < ReorderPoint(target)
           /\ source.storeId # target.storeId
           /\ Quantity(source) - Quantity(target) > 100 }

\* what a pair of the context says of its two stores
PairFacts(pair) ==
    [source_store |-> pair.source_store, target_store |-> pair.target_store,
     source_quantity |-> pair.source_quantity,
     target_quantity |-> pair.target_quantity,
     quantity_diff |-> pair.quantity_diff]

ExpectedFacts(inventory_levels, c) ==
    LET source == inventory_levels[c[1]]
        target == inventory_levels[c[2]]
    IN [source_store |-> source.storeId, target_store |-> target.storeId,
        source_quantity |-> Quantity(source),
        target_quantity |-> Quantity(target),
        quantity_diff |-> Quantity(source) - Quantity(target)]

\* C26: before capping, the candidate pair list built by
\* _prepare_analysis_context is exactly the set of pairs (source = high-stock
\* store with quantity > 200, target = critical-low store with quantity <
\* 0.5 x reorder point) with different store ids and a quantity difference
\* above 100, one entry per such pair of inventory documents; S1 (300,
\* reorder 50) and S2 (10, reorder 50) yield (S1, S2) with quantity_diff 290
C26_CandidatePairs ==
    (analysis.n > 0 /\ deployment = "simple") =>
        LET inventory_levels == analysis.inventory_levels
            expected == CandidatePositions(inventory_levels)
        IN /\ { PairFacts(analysis.pairs[k]) :
                  k \in 1..Len(analysis.pairs) }
              = { ExpectedFacts(inventory_levels, c) : c \in expected }
           /\ Len(analysis.pairs) = Cardinality(expected)
           /\ inventory_levels = ScenarioInventory =>
                  /\ Len(analysis.pairs) = 1
                  /\ PairFacts(analysis.pairs[1]) =
                         [source_store |-> StoreName(1),
                          target_store |-> StoreName(2),
                          source_quantity |-> 300, target_quantity |-> 10,
                          quantity_diff |-> 290]

\* an inventory of seven documents has been analysed in which a high-stock
\* and a critical-low document of one store are not paired, a pair within
\* 100 units is left out, and a document without quantity is a target
C26_Witness ==
    /\ analysis.n > 0
    /\ deployment = "simple"
    /\ Len(analysis.inventory_levels) = MaxStores
    /\ HighStock(analysis.inventory_levels[1])
    /\ CriticalLow(analysis.inventory_levels[MaxStores])
    /\ \E k \in 1..MaxStores :
           analysis.inventory_levels[k].quantity = <<>>
    /\ \E i, j \in 1..MaxStores :
           /\ HighStock(analysis.inventory_levels[i])
           /\ CriticalLow(analysis.inventory_levels[j])
           /\ Quantity(analysis.inventory_levels[i])
              - Quantity(analysis.inventory_levels[j]) <= 100
    /\ Len(analysis.pairs) > 1

\* C27: when more than 10 candidate pairs qualify, the context contains
\* exactly the 10 pairs with the largest quantity difference: no omitted
\* pair has a larger quantity_diff than an included pair
C27_Claimed ==
    (analysis.n > 0 /\ Len(analysis.pairs) > PairCap) =>
        LET included == analysis.context.arbitrage_opportunities
        IN /\ Len(included) = PairCap
           /\ \A k \in 1..Len(included), j \in 1..Len(analysis.pairs) :
                  analysis.pairs[j].quantity_diff > included[k].quantity_diff
                  => \E i \in 1..Len(included) : included[i] = analysis.pairs[j]

----------------------------------------------------------------------------
(* Claims about the content and the identifiers of a listing *)

\* the entries of the unprocessed opportunities that pass the store filter,
\* among the Decisions numbered in K
EntriesOf(decs, K, storeId) ==
    { ListingEntry(decs[c[1]], c[2]) : c \in Candidates(decs, K, storeId) }

\* entry a comes before entry b: its Decision is newer, or it is the same
\* Decision and its position is smaller
ListedBefore(a, b) ==
    \/ a.timestamp > b.timestamp
    \/ a.decision_id = b.decision_id /\ a.index < b.index

\* C29: list_opportunities(limit, store_id) returns exactly the first limit
\* entries, ordered by Decision newest-first and then by position in the
\* Decision, of the unprocessed opportunities that pass the store filter
\* among the 2 x limit most recent Decisions that have an opportunities
\* field; opportunities of older Decisions are never returned, even when
\* fewer than limit entries are returned
C29_ExactListing ==
    IsListing(response) =>
        LET listed == response.opportunities
            expected == EntriesOf(agent_decisions,
                                  MostRecent(agent_decisions,
                                             2 * response.limit),
                                  response.storeId)
        IN /\ \A k \in 1..Len(listed) : listed[k] \in expected
           /\ \A a, b \in 1..Len(listed) :
                  a < b => ListedBefore(listed[a], listed[b])
           /\ Len(listed) = Min(response.limit, Cardinality(expected))
           /\ \A e \in expected :
                  (\A k \in 1..Len(listed) : listed[k] # e) =>
                      \A k \in 1..Len(listed) : ListedBefore(listed[k], e)

\* a listing holds fewer than limit entries although a Decision older than
\* the 2 x limit most recent ones holds an unprocessed opportunity that
\* passes the filter
C29_Witness ==
    /\ IsListing(response)
    /\ Len(response.opportunities) < response.limit
    /\ Candidates(agent_decisions,
                  AllDecisions(agent_decisions)
                      \ MostRecent(agent_decisions, 2 * response.limit),
                  response.storeId) # {}

\* the identifier that a listing computes for position i of Decision k
IdentifierAt(decs, k, i) ==
    OppId(decs[k], decs[k].decision.analysis_result.opportunities[i + 1], i)

\* the (Decision, position) pairs of the collection
AllPositions(decs) ==
    UNION { { <<k, i>> : i \in Positions(decs[k]) } : k \in 1..Len(decs) }

UniqueIdentifiers(decs) ==
    \A c, d \in AllPositions(decs) :
        c # d => IdentifierAt(decs, c[1], c[2]) # IdentifierAt(decs, d[1], d[2])

\* the (Decision, position) pairs that an unfiltered listing of the whole
\* collection would show
Unprocessed(decs) == Candidates(decs, AllDecisions(decs), PyNone)

\* C30: identifiers computed by list_opportunities are unique across all
\* (Decision, position) pairs, for any product ids and store ids (including
\* ids that contain '-' or are empty), so a successful mark_processed of one
\* listed opportunity removes exactly that opportunity from later listings
\* and no other opportunity of the same or of another Decision
C30_Step ==
    /\ UniqueIdentifiers(agent_decisions')
    /\ (/\ IsListing(response)
        /\ IsProcessed(response')
        /\ response'.opportunity_id \in ListedIds
        /\ response'.updated_records > 0)
       => \E c \in Unprocessed(agent_decisions) :
              /\ IdentifierAt(agent_decisions, c[1], c[2])
                     = response'.opportunity_id
              /\ Unprocessed(agent_decisions')
                     = Unprocessed(agent_decisions) \ {c}

C30_UniqueIdentifiers == [][C30_Step]_vars

\* the first of two opportunities of one Decision whose store ids join to
\* the same text has been marked, a Decision of a product id with '-' and
\* one of the empty product id are stored, and the second is still listed
C30_Witness ==
    /\ IsProcessed(response)
    /\ response.opportunity_id \in marked
    /\ \E k \in 1..Len(agent_decisions) :
           /\ Len(agent_decisions[k].decision.analysis_result.opportunities)
                  = 2
           /\ response.opportunity_id = IdentifierAt(agent_decisions, k, 0)
           /\ <<k, 1>> \in Unprocessed(agent_decisions)
    /\ \E k, j \in 1..Len(agent_decisions) :
           /\ agent_decisions[k].productId = ProductDash
           /\ agent_decisions[j].productId = Empty

----------------------------------------------------------------------------
(* Claims about process_opportunity and the listing that follows it *)

\* the identifiers that get_recent_opportunities computes for the
\* opportunities of the collection, processed or not
ListingIdentifiers(decs) ==
    { IdentifierAt(decs, c[1], c[2]) : c \in AllPositions(decs) }

\* C31: a process_opportunity request that takes the update_many fallback
\* appends its audit entry to Decisions but leaves every listing as it was:
\* its identifier is none of the identifiers the listing computes, so no
\* opportunity becomes excluded by it
C31_Step ==
    (IsProcessed(response') /\ TakesFallback(response'.opportunity_id)) =>
        /\ response'.opportunity_id \notin ListingIdentifiers(agent_decisions)
        /\ Unprocessed(agent_decisions') = Unprocessed(agent_decisions)
        /\ SameListings(agent_decisions, agent_decisions')

Owners(decs, opportunity_id) ==
    { k \in 1..Len(decs) :
          decs[k].id = Lower(SplitFirst(opportunity_id, "-")) }

\* C32: a request with a well-formed identifier whose leading component is
\* the _id of no stored Decision is answered with success and an update
\* count of 0, and leaves the collection as it was: nothing is appended, no
\* error is raised and the broad update is not taken
C32_Step ==
    ( /\ response'.op = "process"
      /\ marks' = marks + 1
      /\ WellFormed(response'.opportunity_id)
      /\ Owners(agent_decisions, response'.opportunity_id) = {} )
    => /\ response'.status = 200
       /\ response'.updated_records = 0
       /\ agent_decisions' = agent_decisions

C34_Step ==
    ( /\ response'.op = "process"
      /\ marks' = marks + 1
      /\ WellFormed(response'.opportunity_id)
      /\ Owners(agent_decisions, response'.opportunity_id) # {} )
    => /\ response'.status = 200
       /\ response'.updated_records = 1
       /\ Cardinality(AuditEntries(agent_decisions',
                                   response'.opportunity_id))
              = Cardinality(AuditEntries(agent_decisions,
                                         response'.opportunity_id)) + 1
       /\ AuditDecisions(agent_decisions', response'.opportunity_id)
              = AuditDecisions(agent_decisions, response'.opportunity_id)
                    \cup {response'.decision}

C34_NoStateCheck == [][C34_Step]_vars

\* an opportunity marked "approved" was marked "rejected" afterwards, and
\* its Decision holds the two entries in that order
C34_Witness ==
    /\ IsProcessed(response)
    /\ response.decision = "rejected"
    /\ response.opportunity_id \in marked
    /\ \E k \in Owners(agent_decisions, response.opportunity_id) :
           LET entries == agent_decisions[k].processed_opportunities
           IN /\ Len(entries) = 2
              /\ entries[1].opportunity_id = response.opportunity_id
              /\ entries[1].decision = "approved"
              /\ entries[2].opportunity_id = response.opportunity_id
              /\ entries[2].decision = "rejected"

\* an identifier that names no position of its Decision was marked, and the
\* Decision holds the entry
C34_NoPositionMarked ==
    /\ IsProcessed(response)
    /\ WellFormed(response.opportunity_id)
    /\ response.updated_records = 1
    /\ response.opportunity_id \notin ListingIdentifiers(agent_decisions)
    /\ \E k \in Owners(agent_decisions, response.opportunity_id) :
           response.opportunity_id \in ProcessedIds(agent_decisions[k])

----------------------------------------------------------------------------
(* Claims about concurrent process_opportunity calls *)

\* the calls whose update the store has applied
Applied ==
    { n \in 1..Len(requests) : /\ requests[n].pc \in {"updated", "answered"}
                               /\ requests[n].status = 200 }

\* the applied calls that sent the same identifier and decision value as n
SameRequest(n) ==
    { m \in Applied :
          /\ requests[m].opportunity_id = requests[n].opportunity_id
          /\ requests[m].decision = requests[n].decision }

\* the audit entries of Decision k that call n has sent
EntriesFrom(decs, k, n) ==
    { j \in 1..Len(decs[k].processed_opportunities) :
          decs[k].processed_opportunities[j]
              = ProcessedEntry(requests[n].opportunity_id,
                               requests[n].decision, NoId, NoId,
                               ProcessedAt) }

\* C35: process_opportunity calls in flight at the same time on one
\* Decision all take effect, in whatever order the store applies their
\* updates: every applied call has modified one document, its Decision holds
\* one audit entry for each applied call (none is lost or overwritten), and
\* no listing returns the opportunity of an applied call
C35_NoLostUpdate ==
    \A n \in Applied :
        /\ requests[n].updated_records = 1
        /\ \A k \in Owners(agent_decisions, requests[n].opportunity_id) :
               Cardinality(EntriesFrom(agent_decisions, k, n))
                   = Cardinality(SameRequest(n))
        /\ \A limit \in Limits, storeId \in StoreFilters :
               requests[n].opportunity_id
                   \notin IdsOf(RecentOpportunities(agent_decisions, limit,
                                                    storeId))

\* two calls for different opportunities of one Decision were in flight
\* together and the store applied the later one first: the Decision holds
\* both entries, in the order of application
C35_Witness ==
    /\ Len(requests) = 2
    /\ requests[1].pc = "answered"
    /\ requests[2].pc = "answered"
    /\ requests[1].opportunity_id # requests[2].opportunity_id
    /\ \E k \in 1..Len(agent_decisions) :
           LET entries == agent_decisions[k].processed_opportunities
           IN /\ Len(entries) = 2
              /\ entries[1].opportunity_id = requests[2].opportunity_id
              /\ entries[2].opportunity_id = requests[1].opportunity_id

----------------------------------------------------------------------------
(* Claims about the review of a cycle's opportunities *)

\* the positions (from 1) of the opportunities that run_agent_for_product
\* passes to the gate, in order
RECURSIVE HighPositions(_, _)
HighPositions(opps, k) ==
    IF k > Len(opps) THEN <<>>
    ELSE IF opps[k].confidence > ExecuteThreshold
    THEN <<k>> \o HighPositions(opps, k + 1)
    ELSE HighPositions(opps, k + 1)

\* the positions of result r for which the gate created a bid or logged a
\* recommendation
ActedPositions(r) ==
    LET high == HighPositions(r.opportunities, 1)
    IN { high[n] : n \in { m \in 1..Len(r.executed_actions) :
                              r.executed_actions[m].status
                                  \in {"success", "logged"} } }

\* the stored Decisions of a product
DecisionsOfProduct(decs, product_id) ==
    { d \in 1..Len(decs) : decs[d].productId = product_id }

\* C33: an opportunity for which the gate created a bid or logged a
\* recommendation during a cycle gets no audit entry from the cycle, and a
\* listing wide enough to show the whole cycle returns it until a
\* process_opportunity request for it has succeeded
C33_Claimed ==
    \A k \in 1..Len(runner.persisted) :
        \A i \in ActedPositions(runner.results[k]) :
            \E d \in DecisionsOfProduct(agent_decisions,
                                        runner.product_ids[k]) :
                LET id == IdentifierAt(agent_decisions, d, i - 1)
                IN /\ id \in ProcessedIds(agent_decisions[d]) <=> id \in marked
                   /\ id \notin marked =>
                          id \in IdsOf(RecentOpportunities(
                                           agent_decisions, WideLimit, PyNone))

\* what holds of the opportunities whose Decision the store accepted: the
\* cycle gives them no audit entry, and the wide listing returns them until
\* a process_opportunity request for them has succeeded
C33_StoredStaysListed ==
    \A k \in 1..Len(runner.persisted) :
        runner.persisted[k] \in {"stored", "cache"} =>
            \A d \in DecisionsOfProduct(agent_decisions,
                                        runner.product_ids[k]) :
                \A i \in ActedPositions(runner.results[k]) :
                    LET id == IdentifierAt(agent_decisions, d, i - 1)
                    IN /\ id \in ProcessedIds(agent_decisions[d])
                              <=> id \in marked
                       /\ id \notin marked =>
                              id \in IdsOf(RecentOpportunities(
                                               agent_decisions, WideLimit,
                                               PyNone))

\* the cycle has returned, a bid was created for one opportunity and a
\* recommendation logged for another, one of the two has been marked since
\* and the last listing shows the other one
C33_StoredReviewed ==
    /\ runner.pc = "done"
    /\ response.op = "opportunities"
    /\ \E k \in 1..Len(runner.persisted) :
           /\ runner.persisted[k] = "stored"
           /\ \E m, n \in 1..Len(runner.results[k].executed_actions) :
                  /\ runner.results[k].executed_actions[m].action
                         = "bid_created"
                  /\ runner.results[k].executed_actions[n].status = "logged"
           /\ \E d \in DecisionsOfProduct(agent_decisions,
                                          runner.product_ids[k]) :
                  \E i, j \in ActedPositions(runner.results[k]) :
                      /\ IdentifierAt(agent_decisions, d, i - 1) \in marked
                      /\ IdentifierAt(agent_decisions, d, j - 1)
                             \in ListedIds \ marked

----------------------------------------------------------------------------
(* Claims about what an analysis records *)

\* C36: analyze_product records a Decision exactly when the whole payload
\* parses and every entry coerces: an analysis that failed to parse or to
\* coerce leaves no Decision and no cache entry of the product, and a
\* successful one leaves exactly one Decision, whose opportunities_found is
\* the number of opportunities returned
C36_Claimed ==
    \A k \in 1..Len(runner.persisted) :
        LET product_id == runner.product_ids[k]
        IN IF runner.faults[k] = "none"
           THEN /\ Cardinality(DecisionsFor(product_id)) = 1
                /\ \A d \in DecisionsFor(product_id) :
                       agent_decisions[d].decision.opportunities_found
                           = Len(runner.results[k].opportunities)
           ELSE /\ DecisionsFor(product_id) = {}
                /\ ~recent_decision[product_id].present

\* what holds: update_agent_decision is reached exactly by the analyses
\* that parsed and coerced, an analysis that did not reach it leaves neither
\* Decision nor cache entry, and one whose insert the store accepted leaves
\* exactly one Decision with the count of the opportunities returned
C36_RecordedWhenAccepted ==
    \A k \in 1..Len(runner.persisted) :
        LET product_id == runner.product_ids[k]
        IN /\ runner.persisted[k] = "skipped" <=> runner.faults[k] # "none"
           /\ runner.persisted[k] \in {"skipped", "insert"} =>
                  /\ DecisionsFor(product_id) = {}
                  /\ ~recent_decision[product_id].present
           /\ runner.persisted[k] \in {"stored", "cache"} =>
                  /\ Cardinality(DecisionsFor(product_id)) = 1
                  /\ \A d \in DecisionsFor(product_id) :
                         agent_decisions[d].decision.opportunities_found
                             = Len(runner.results[k].opportunities)

----------------------------------------------------------------------------
(* Claims about the results of a single-agent cycle *)

\* C37: every per-product result of a single-agent cycle is an error entry
\* or a success entry whose opportunities_found is the number of its
\* opportunities and whose actions_executed is the number of its
\* executed_actions; the gate is called for the opportunities of confidence
\* above 0.7 and for no other, so actions_executed never exceeds
\* opportunities_found
C37_ResultShape ==
    \A k \in 1..Len(runner.results) :
        LET r == runner.results[k]
        IN IF r.error
           THEN r = ErrorResult
           ELSE /\ r.product_id = PyStr(runner.product_ids[k])
                /\ r.opportunities_found = Len(r.opportunities)
                /\ r.actions_executed = Len(r.executed_actions)
                /\ Len(r.executed_actions)
                       = Len(HighPositions(r.opportunities, 1))
                /\ r.actions_executed <= r.opportunities_found

\* a returned cycle with an error entry and a success entry that lists two
\* opportunities, one of which was passed to the gate
C37_Witness ==
    /\ RunnerReturned
    /\ \E k \in 1..Len(runner.results) : runner.results[k].error
    /\ \E k \in 1..Len(runner.results) :
           /\ ~runner.results[k].error
           /\ runner.results[k].opportunities_found = 2
           /\ runner.results[k].actions_executed = 1

----------------------------------------------------------------------------
(* Claims about the orchestrator's crew cache *)

\* C38: the crew cache of an orchestrator only grows: a product id that has
\* a cached crew keeps that crew, neither removed nor replaced, for as long
\* as the orchestrator lives, whether the later analyses of the product
\* succeed or fail
C38_Step ==
    orch'.epoch = orch.epoch =>
        \A p \in DOMAIN orch.crews :
            /\ p \in DOMAIN orch'.crews
            /\ orch'.crews[p] = orch.crews[p]

C38_CacheOnlyGrows == [][C38_Step]_vars

\* a product whose crew was cached in an earlier pass has been analysed
\* again by the same orchestrator, the kickoff raised, and the cache holds
\* the crew of the first pass next to the crew of another product
C38_Witness ==
    LET log == orch.events
    IN \E p \in DOMAIN orch.crews :
           /\ DOMAIN orch.crews # {p}
           /\ \E j, k \in EventsOf(log, "kickoff") :
                  /\ log[j].product_id = p /\ log[k].product_id = p
                  /\ log[j].orchestrator = orch.epoch
                  /\ log[k].orchestrator = orch.epoch
                  /\ log[j].inst = orch.crews[p]
                  /\ log[k].inst = orch.crews[p]
                  /\ log[j].cycle < log[k].cycle
                  /\ log[k].cycle = orch.cycles
           /\ \E n \in 1..Len(orch.batch_results) :
                  /\ orch.batch_results[n].error
                  /\ orch.batch_results[n].product_id = PyStr(p)

====
